---- MODULE Spec2Model ----
(***************************************************************************)
(* schema-versioned-storage: the persisted-state manager                   *)
(* (createPersistedState), the migration runner (runMigrations) and the    *)
(* in-memory storage adapter, as a state machine.                          *)
(*                                                                         *)
(* A JavaScript value of a state field is a record [k, n, s]: k is the     *)
(* typeof the value, n its number and s its string.  A state object is a   *)
(* function from Keys to field values, Undefined standing for a key the    *)
(* object does not have.                                                   *)
(***************************************************************************)
EXTENDS Integers, Sequences, FiniteSets, TLC

\* ---------------------------------------------------------------- bounds
MaxVersion == 2
MaxWrites == 1
MaxInflight == 2

\* ---------------------------------------------------------------- values
Num(n) == [k |-> "number", n |-> n, s |-> ""]
Str(s) == [k |-> "string", n |-> 0, s |-> s]
Undefined == [k |-> "undefined", n |-> 0, s |-> ""]
\* The string `${s}${n}`.
Template(s, n) == [k |-> "string", n |-> n, s |-> s]

Keys == {"_version", "name", "count"}
KeyOrder == <<"_version", "name", "count">>
EmptyObject == [key \in Keys |-> Undefined]

\* A JavaScript value at the top level: an object, or null.
JsObject(o) == [isObject |-> TRUE, obj |-> o]
JsNull == [isObject |-> FALSE, obj |-> EmptyObject]

\* The outcome of a call that may throw.
Ok(v) == [ok |-> TRUE, val |-> v]
Thrown == [ok |-> FALSE, val |-> JsNull]

\* ---------------------------------------------------------------- schema
\* z.object({ _version: z.number(), name: z.string()..., count: z.number()... })
\* with or without .default() on the data fields.
Field(type, hasDefault, def) == [type |-> type, hasDefault |-> hasDefault, def |-> def]

SchemaWithDefaults ==
    [key \in Keys |->
        CASE key = "_version" -> Field("number", FALSE, Undefined)
          [] key = "name" -> Field("string", TRUE, Str("default"))
          [] key = "count" -> Field("number", TRUE, Num(0))]

SchemaWithoutDefaults ==
    [key \in Keys |->
        CASE key = "_version" -> Field("number", FALSE, Undefined)
          [] key = "name" -> Field("string", FALSE, Undefined)
          [] key = "count" -> Field("number", FALSE, Undefined)]

Schemas == {SchemaWithDefaults, SchemaWithoutDefaults}

\* One field of schema.parse: a missing value takes the default when there
\* is one, a present value must have the field's type.
FieldAccepts(f, v) ==
    IF v = Undefined THEN f.hasDefault ELSE v.k = f.type

FieldOutput(f, v) ==
    IF v = Undefined THEN f.def ELSE v

\* schema.parse(value): throws on a non-object and on any rejected field,
\* returns a new object holding exactly the schema's keys.
SchemaParse(sch, jv) ==
    IF jv.isObject /\ \A key \in Keys : FieldAccepts(sch[key], jv.obj[key])
    THEN Ok(JsObject([key \in Keys |-> FieldOutput(sch[key], jv.obj[key])]))
    ELSE Thrown

\* getDefaults(version) = schema.parse({ _version: version })
GetDefaults(sch, version) ==
    SchemaParse(sch, JsObject([EmptyObject EXCEPT !["_version"] = Num(version)]))

\* ---------------------------------------------------------------- JSON
\* A stored item is a record [kind, entries]:
\*   "none"    nothing stored (getItem gives null)
\*   "empty"   the empty string
\*   "garbage" a string that is not JSON
\*   "null"    the JSON text null
\*   "object"  a JSON object, entries being its members in order
Item(kind, entries) == [kind |-> kind, entries |-> entries]
NoItem == Item("none", <<>>)

RECURSIVE Members(_, _)
Members(o, order) ==
    IF order = <<>> THEN <<>>
    ELSE LET key == Head(order)
             rest == Members(o, Tail(order))
         IN IF o[key] = Undefined THEN rest
            ELSE <<[key |-> key, val |-> o[key]]>> \o rest

\* JSON.stringify(state): members with an undefined value are left out.
JSONStringify(o) == Item("object", Members(o, KeyOrder))

Lookup(entries, key) ==
    IF \E i \in 1..Len(entries) : entries[i].key = key
    THEN LET i == CHOOSE j \in 1..Len(entries) :
                      /\ entries[j].key = key
                      /\ \A l \in (j+1)..Len(entries) : entries[l].key # key
         IN entries[i].val
    ELSE Undefined

\* JSON.parse(stored)
JSONParse(item) ==
    CASE item.kind = "object" -> Ok(JsObject([key \in Keys |-> Lookup(item.entries, key)]))
      [] item.kind = "null" -> Ok(JsNull)
      [] OTHER -> Thrown

\* ---------------------------------------------------------------- migrations
\* A migration is [version, kind]; kind names its migrate function and
\* serves as its description.
Migration(version, kind) == [version |-> version, kind |-> kind]

MigrationKinds == {"rename", "stale", "corrupt", "throws"}

\* migration.migrate(state)
\*   rename   { ...state, _version: version, name: `v${version}` }
\*   stale    { ...state }            (the version number is left as it was)
\*   corrupt  { ...state, _version: version, count: "oops" }
\*   trail    { ...state, _version: version, count: state.count * 10 + version }
\*   throws   throw new Error("Migration failed")
\*   throws-string   throw "String error"
Migrate(m, jv) ==
    CASE m.kind = "rename" ->
           Ok(JsObject([jv.obj EXCEPT !["_version"] = Num(m.version),
                                      !["name"] = Template("v", m.version)]))
      [] m.kind = "stale" -> Ok(JsObject(jv.obj))
      [] m.kind = "corrupt" ->
           Ok(JsObject([jv.obj EXCEPT !["_version"] = Num(m.version),
                                      !["count"] = Str("oops")]))
      [] m.kind = "trail" /\ jv.obj["count"].k = "number" ->
           Ok(JsObject([jv.obj EXCEPT !["_version"] = Num(m.version),
                                      !["count"] = Num(jv.obj["count"].n * 10 + m.version)]))
      [] OTHER -> Thrown

\* error instanceof Error ? error.message : String(error), for what the
\* migrate function of m throws.
ThrownMessage(m) ==
    IF m.kind = "throws-string" THEN "String error" ELSE "Migration failed"

\* An insertion that compares nothing: the list comes out in reverse of the
\* caller's order.
InsertSorted_AtFront(m, sorted) == <<m>> \o sorted

\* [...migrations].sort((a, b) => a.metadata.version - b.metadata.version):
\* a stable sort, by insertion.
RECURSIVE InsertSorted(_, _)
InsertSorted(m, sorted) ==
    IF sorted = <<>> THEN <<m>>
    ELSE IF m.version < Head(sorted).version
         THEN <<m>> \o sorted
         ELSE <<Head(sorted)>> \o InsertSorted(m, Tail(sorted))

\* The list taken in the caller's order, without the sort.
SortedMigrations_Unsorted(migs) == migs

RECURSIVE SortedMigrations(_)
SortedMigrations(migs) ==
    IF migs = <<>> THEN <<>>
    ELSE InsertSorted(migs[Len(migs)], SortedMigrations(SubSeq(migs, 1, Len(migs) - 1)))

\* The filter with fromVersion itself included.
MigrationsToRun_Inclusive(migs, fromVersion, toVersion) ==
    SelectSeq(SortedMigrations(migs),
              LAMBDA m : m.version >= fromVersion /\ m.version <= toVersion)

\* sortedMigrations.filter(m => m.version > fromVersion && m.version <= toVersion)
MigrationsToRun(migs, fromVersion, toVersion) ==
    SelectSeq(SortedMigrations(migs),
              LAMBDA m : m.version > fromVersion /\ m.version <= toVersion)

\* The expected versions that no selected migration provides, ascending.
RECURSIVE MissingFrom(_, _, _)
MissingFrom(v, toVersion, toRun) ==
    IF v > toVersion THEN <<>>
    ELSE IF \E i \in 1..Len(toRun) : toRun[i].version = v
         THEN MissingFrom(v + 1, toVersion, toRun)
         ELSE <<v>> \o MissingFrom(v + 1, toVersion, toRun)

\* The check as it would be if it stopped at the first missing version.
MissingVersions_FirstOnly(migs, fromVersion, toVersion) ==
    LET all == MissingFrom(fromVersion + 1, toVersion,
                           MigrationsToRun(migs, fromVersion, toVersion))
    IN IF all = <<>> THEN <<>> ELSE <<Head(all)>>

MissingVersions(migs, fromVersion, toVersion) ==
    MissingFrom(fromVersion + 1, toVersion, MigrationsToRun(migs, fromVersion, toVersion))

\* The result of a run: the value returned or the error thrown, and the
\* versions whose migrate function was invoked, in order.
\* failed is what the error of a failing step names: the migration's version,
\* its description and the message of what it threw.
NoFailure == [version |-> 0, description |-> "none", cause |-> "none"]

RunResult(ok, val, error, invoked, missing) ==
    [ok |-> ok, val |-> val, error |-> error, invoked |-> invoked, missing |-> missing,
     failed |-> NoFailure]

\* new Error(`Migration ${version} (${description}) failed: ${message}`)
StepFailure(m, invoked) ==
    [RunResult(FALSE, JsNull, "step", invoked, <<>>) EXCEPT
        !.failed = [version |-> m.version, description |-> m.kind,
                    cause |-> ThrownMessage(m)]]

\* The loop as it would be with a catch that swallows the error and goes on
\* with the state it had.
RECURSIVE RunSteps_SkipsFailed(_, _, _)
RunSteps_SkipsFailed(cur, toRun, invoked) ==
    IF toRun = <<>> THEN RunResult(TRUE, cur, "none", invoked, <<>>)
    ELSE LET m == Head(toRun)
             r == Migrate(m, cur)
         IN RunSteps_SkipsFailed(IF r.ok THEN r.val ELSE cur, Tail(toRun),
                                 Append(invoked, m.version))

\* for (const migration of migrationsToRun) { try { currentState = migration.migrate(currentState) } catch ... }
RECURSIVE RunSteps(_, _, _)
RunSteps(cur, toRun, invoked) ==
    IF toRun = <<>> THEN RunResult(TRUE, cur, "none", invoked, <<>>)
    ELSE LET m == Head(toRun)
             r == Migrate(m, cur)
         IN IF r.ok
            THEN RunSteps(r.val, Tail(toRun), Append(invoked, m.version))
            ELSE StepFailure(m, Append(invoked, m.version))

\* runMigrations with the two version checks merged into one
\* (fromVersion >= toVersion throws).
RunMigrations_EqualIsBackward(jv, fromVersion, toVersion, migs) ==
    IF fromVersion >= toVersion THEN RunResult(FALSE, JsNull, "backward", <<>>, <<>>)
    ELSE IF MissingVersions(migs, fromVersion, toVersion) # <<>>
         THEN RunResult(FALSE, JsNull, "missing", <<>>,
                        MissingVersions(migs, fromVersion, toVersion))
         ELSE RunSteps(jv, MigrationsToRun(migs, fromVersion, toVersion), <<>>)

\* runMigrations without the check for fromVersion > toVersion.
RunMigrations_NoBackwardCheck(jv, fromVersion, toVersion, migs) ==
    IF fromVersion = toVersion THEN RunResult(TRUE, jv, "none", <<>>, <<>>)
    ELSE IF MissingVersions(migs, fromVersion, toVersion) # <<>>
         THEN RunResult(FALSE, JsNull, "missing", <<>>,
                        MissingVersions(migs, fromVersion, toVersion))
         ELSE RunSteps(jv, MigrationsToRun(migs, fromVersion, toVersion), <<>>)

\* runMigrations(state, fromVersion, toVersion, migrations)
RunMigrations(jv, fromVersion, toVersion, migs) ==
    IF fromVersion = toVersion THEN RunResult(TRUE, jv, "none", <<>>, <<>>)
    ELSE IF fromVersion > toVersion THEN RunResult(FALSE, JsNull, "backward", <<>>, <<>>)
    ELSE IF MissingVersions(migs, fromVersion, toVersion) # <<>>
         THEN RunResult(FALSE, JsNull, "missing", <<>>,
                        MissingVersions(migs, fromVersion, toVersion))
         ELSE RunSteps(jv, MigrationsToRun(migs, fromVersion, toVersion), <<>>)

\* ---------------------------------------------------------------- manager
VARIABLES
    schema,          \* config.schema
    currentVersion,  \* getCurrentVersion() at construction
    migrations,      \* config.migrations, in the caller's order
    storage,         \* the adapter's item under storageKey
    state,           \* the manager's state (JsNull: null)
    initialized,     \* the manager's initialized flag
    inflight,        \* adapter requests issued and not yet answered
    last,            \* the latest call: what it was given and how it ended
    written,         \* the latest set that resolved, until the next write call
    writes,          \* number of set, update and clear calls made so far
    run,             \* a direct call of runMigrations: its arguments and result
    callers,         \* "sequential": every call is awaited before the next is
                     \* made; "overlapping": calls are made while others pend;
                     \* "keeping": sequential, and they keep what getAll returned;
                     \* "ordered": overlapping set and update calls with valid
                     \* values, over an adapter that stores in the order of
                     \* the calls
    held,            \* the object a caller keeps from its latest getAll()
    schemaHashes,    \* config.schemaHashes: version -> hash, Undefined where absent
    pure             \* a direct call of one of the library's other functions:
                     \* its name, its arguments and what it returned

vars == <<schema, currentVersion, migrations, storage, state, initialized,
          inflight, last, written, writes, run, callers, held, schemaHashes, pure>>

\* What no call on the manager changes.
settings == <<schema, currentVersion, migrations, run, callers, schemaHashes, pure>>

\* What only getAll and the calls that assign the state touch.
config == <<settings, held>>

\* The record of a call.  outcome: "pending" while its adapter request is
\* in flight, then "resolved" or the error it failed with (a call that
\* fails its check records no argument).  adapter: the
\* adapter request the call issued.  updater: whether the updater ran.
\* read, branch, failure, invoked: what init() read and did with it.
Call(op, outcome, key, value, adapter) ==
    [op |-> op, outcome |-> outcome, key |-> key, value |-> value,
     adapter |-> adapter, updater |-> FALSE, read |-> NoItem,
     branch |-> "none", failure |-> "none", invoked |-> <<>>]

NoWrite == [stage |-> "none", key |-> "_version", value |-> Undefined]

\* An adapter request in flight, with the record of the call that awaits it.
Request(op, item, call) == [op |-> op, item |-> item, call |-> call]

\* ---------------------------------------------------------------- init()
\* What the body of init() after the await leaves behind: whether init
\* resolves, the value assigned to state, the branch taken on the stored
\* version, the failure met, and the migrations invoked.
InitOutcome(resolved, st, branch, failure, invoked) ==
    [resolved |-> resolved, state |-> st, branch |-> branch,
     failure |-> failure, invoked |-> invoked]

\* parsed._version ?? 0, compared with currentVersion.
StoredVersion(o) ==
    IF o["_version"] = Undefined THEN 0 ELSE o["_version"].n

\* A stored version above the current one taken as the current one.
VersionBranch_NewerAsSame(o, cv) ==
    IF o["_version"] # Undefined /\ o["_version"].k # "number" THEN "newer"
    ELSE IF StoredVersion(o) < cv THEN "older"
    ELSE "same"

VersionBranch(o, cv) ==
    IF o["_version"] # Undefined /\ o["_version"].k # "number" THEN "newer"
    ELSE IF StoredVersion(o) < cv THEN "older"
    ELSE IF StoredVersion(o) = cv THEN "same"
    ELSE "newer"

\* The catch blocks as they would be if a throw of getDefaults were
\* swallowed: init resolves with the state as assigned so far.
UseDefaults_Swallows(sch, cv, assigned, branch, failure, invoked) ==
    LET d == GetDefaults(sch, cv)
    IN IF d.ok THEN InitOutcome(TRUE, d.val, branch, failure, invoked)
       ELSE InitOutcome(TRUE, assigned, branch, failure, invoked)

\* The catch blocks: state = getDefaults(currentVersion).  When getDefaults
\* throws there, nothing catches it: init rejects and state stays as
\* assigned so far.
UseDefaults(sch, cv, assigned, branch, failure, invoked) ==
    LET d == GetDefaults(sch, cv)
    IN IF d.ok THEN InitOutcome(TRUE, d.val, branch, failure, invoked)
       ELSE InitOutcome(FALSE, assigned, branch, failure, invoked)

\* The candidate taken as the state without schema.parse.
ValidateCandidate_Unchecked(sch, cv, candidate, branch, invoked) ==
    InitOutcome(TRUE, candidate, branch, "none", invoked)

\* state = schema.parse(state), state holding the candidate already.
ValidateCandidate(sch, cv, candidate, branch, invoked) ==
    LET p == SchemaParse(sch, candidate)
    IN IF p.ok THEN InitOutcome(TRUE, p.val, branch, "none", invoked)
       ELSE UseDefaults(sch, cv, candidate, branch, "invalid", invoked)

\* schemaHashes[version]
TableEntry(hashes, version) ==
    IF version \in DOMAIN hashes THEN hashes[version] ELSE Undefined

\* The hash check as it would be if it compared the table entry with the
\* fingerprint of the live schema.
HashAccepts_Compares(hashes, sch, cv) ==
    LET expectedHash == TableEntry(hashes, cv)
    IN (expectedHash # Undefined /\ expectedHash # Str(""))
          => expectedHash = Str("live")

\* const expectedHash = schemaHashes[currentVersion]; if (expectedHash) { }
\* (the body holds comments only).
HashAccepts(hashes, sch, cv) ==
    LET expectedHash == TableEntry(hashes, cv)
    IN IF expectedHash # Undefined /\ expectedHash # Str("") THEN TRUE ELSE TRUE

\* Lines 84-128 of init(), given the answer of storage.getItem and the
\* table of schema hashes.
LoadStateWith(hashes, sch, cv, migs, old, read) ==
    IF ~read.ok THEN UseDefaults(sch, cv, old, "read-error", "none", <<>>)
    ELSE IF read.item.kind \in {"none", "empty"}
         THEN UseDefaults(sch, cv, old, "absent", "none", <<>>)
    ELSE LET parsed == JSONParse(read.item)
         IN IF ~parsed.ok \/ ~parsed.val.isObject
            THEN UseDefaults(sch, cv, old, "unparseable", "none", <<>>)
            ELSE LET branch == VersionBranch(parsed.val.obj, cv)
                 IN CASE branch = "older" ->
                           LET r == RunMigrations(parsed.val, StoredVersion(parsed.val.obj),
                                                  cv, migs)
                           IN IF r.ok
                              THEN ValidateCandidate(sch, cv, r.val, branch, r.invoked)
                              ELSE UseDefaults(sch, cv, old, branch, r.error, r.invoked)
                      [] branch = "same" ->
                           IF HashAccepts(hashes, sch, cv)
                           THEN ValidateCandidate(sch, cv, parsed.val, branch, <<>>)
                           ELSE UseDefaults(sch, cv, old, branch, "hash", <<>>)
                      [] OTHER ->
                           LET d == GetDefaults(sch, cv)
                           IN IF d.ok
                              THEN ValidateCandidate(sch, cv, d.val, branch, <<>>)
                              ELSE UseDefaults(sch, cv, old, branch, "none", <<>>)

LoadState(sch, cv, migs, old, read) ==
    LoadStateWith(schemaHashes, sch, cv, migs, old, read)

\* The state left with the version number it came with.
EnsureVersion_Skipped(st, cv) == st

\* if (state && typeof state === "object" && "_version" in state)
\*     state._version = currentVersion
EnsureVersion(st, cv) ==
    IF st.isObject /\ st.obj["_version"] # Undefined
    THEN JsObject([st.obj EXCEPT !["_version"] = Num(cv)])
    ELSE st

\* The check made on the state alone, without the flag.
NotInitialized_StateOnly == ~state.isObject

\* if (!initialized || !state) throw new Error("PersistedState not initialized...")
NotInitialized == ~initialized \/ ~state.isObject

\* ---------------------------------------------------------------- inputs
\* The manager is created for the newest version.
CurrentVersions == {MaxVersion}

\* The values callers pass to set(): a number (below the current
\* version), a string, and undefined.
SetValues == {Num(MaxVersion - 1), Str("a"), Undefined}

\* The updaters callers pass to update(): prev => prev + 1, on a number.
Updaters == {"increment"}

ApplyUpdater(u, prev) ==
    IF u = "increment" THEN Num(prev.n + 1) ELSE prev

\* The items found in storage when the first manager is created: no item,
\* strings that are not a JSON object, and objects of every version up to
\* one above the current one that are complete, lack a field, or hold a
\* field of the wrong type.
StoredObject(v, n, c) ==
    [key \in Keys |->
        CASE key = "_version" -> v
          [] key = "name" -> n
          [] key = "count" -> c]

StoredObjects ==
    UNION { {StoredObject(v, Str("a"), Num(1)),
             StoredObject(v, Undefined, Num(1)),
             StoredObject(v, Str("a"), Str("oops"))} :
            v \in {Undefined} \cup {Num(i) : i \in 1..(MaxVersion + 1)} }

StoredItems ==
    {NoItem, Item("empty", <<>>), Item("garbage", <<>>), Item("null", <<>>)}
      \cup {JSONStringify(o) : o \in StoredObjects}

\* The migration lists: one migration per version, all of kind rename but
\* at most one, which is of another kind or is not registered, listed in
\* ascending order of version; and the lists that lack no version in
\* descending order too.
RECURSIVE Ascending(_, _)
Ascending(kindOf, v) ==
    IF v > MaxVersion THEN <<>>
    ELSE IF kindOf[v] = "absent" THEN Ascending(kindOf, v + 1)
         ELSE <<Migration(v, kindOf[v])>> \o Ascending(kindOf, v + 1)

RECURSIVE Reverse(_)
Reverse(seq) ==
    IF seq = <<>> THEN <<>> ELSE Append(Reverse(Tail(seq)), Head(seq))

MigrationLists ==
    LET kinds == {kindOf \in [1..MaxVersion -> MigrationKinds \cup {"absent"}] :
                     Cardinality({v \in 1..MaxVersion : kindOf[v] # "rename"}) <= 1}
        lists == {Ascending(kindOf, 1) : kindOf \in kinds}
    IN lists \cup {Reverse(l) : l \in {m \in lists : Len(m) = MaxVersion}}

\* ---------------------------------------------------------------- actions
\* A call of runMigrations(state, fromVersion, toVersion, migrations) and
\* what it returned or threw.
RunRecord(stage, jv, fromVersion, toVersion, migs, result) ==
    [stage |-> stage, state |-> jv, fromVersion |-> fromVersion,
     toVersion |-> toVersion, migrations |-> migs, result |-> result]

\* The tables of schema hashes: a hash, the empty string or no entry for
\* the current version, and likewise for the versions before it.
HashTables ==
    LET entries == {Str("live"), Str("hash1"), Str(""), Undefined}
    IN {[v \in 1..MaxVersion |-> IF v = MaxVersion THEN current ELSE earlier] :
           current \in entries, earlier \in entries}

OneHash == [v \in 1..MaxVersion |-> Str("hash1")]

\* No direct call of a function.
NoCall == [fn |-> "none", stage |-> "none"]

\* Nothing kept from getAll().
NotHeld == [kept |-> FALSE, live |-> FALSE, val |-> JsNull]

NoRun == RunRecord("none", JsNull, 0, 0, <<>>, RunResult(TRUE, JsNull, "none", <<>>, <<>>))

Init ==
    /\ run = NoRun
    /\ callers = "sequential"
    /\ held = NotHeld
    /\ schemaHashes = OneHash
    /\ pure = NoCall
    /\ schema \in Schemas
    /\ currentVersion \in CurrentVersions
    /\ migrations \in MigrationLists
    /\ storage \in StoredItems
    /\ state = JsNull
    /\ initialized = FALSE
    /\ inflight = <<>>
    /\ last = Call("create", "resolved", "_version", Undefined, "none")
    /\ written = NoWrite
    /\ writes = 0

\* Each caller awaits its call: a call that reaches the adapter is made
\* only when no request is in flight.
Awaited ==
    \/ inflight = <<>>
    \/ callers \in {"overlapping", "ordered"} /\ Len(inflight) < MaxInflight

\* The number of set, update and clear calls a run makes: overlapping
\* callers make two, so that two writes can pend together.
WriteBudget ==
    CASE callers = "overlapping" -> 2
      [] callers = "ordered" -> MaxWrites + 1
      [] OTHER -> MaxWrites

\* init() without its check of the flag: it reads storage on every call.
InitCall_AlwaysReads ==
    /\ Awaited
    /\ last' = Call("init", "pending", "_version", Undefined, "getItem")
    /\ inflight' = Append(inflight, Request("getItem", NoItem, last'))
    /\ UNCHANGED <<config, storage, state, initialized, written, writes>>

\* init() as it would be with a guard on a load in progress: a call made
\* while another init()'s read is pending issues no read of its own.
InitCall_SharesPending ==
    /\ IF initialized \/ \E i \in 1..Len(inflight) : inflight[i].op = "getItem"
       THEN /\ last' = Call("init", "resolved", "_version", Undefined, "none")
            /\ UNCHANGED inflight
       ELSE /\ Awaited
            /\ last' = Call("init", "pending", "_version", Undefined, "getItem")
            /\ inflight' = Append(inflight, Request("getItem", NoItem, last'))
    /\ UNCHANGED <<config, storage, state, initialized, written, writes>>

\* init(), up to the await of storage.getItem.
InitCall ==
    /\ IF initialized
       THEN /\ last' = Call("init", "resolved", "_version", Undefined, "none")
            /\ UNCHANGED inflight
       ELSE /\ Awaited
            /\ last' = Call("init", "pending", "_version", Undefined, "getItem")
            /\ inflight' = Append(inflight, Request("getItem", NoItem, last'))
    /\ UNCHANGED <<config, storage, state, initialized, written, writes>>

\* init() as it would be if it tested the flag again after the await: a
\* read answered on a manager that is initialized by then assigns nothing.
GetItemDone_ChecksFlag(i, fails) ==
    /\ i \in 1..Len(inflight)
    /\ inflight[i].op = "getItem"
    /\ inflight' = SubSeq(inflight, 1, i - 1) \o SubSeq(inflight, i + 1, Len(inflight))
    /\ LET answer == [ok |-> ~fails, item |-> storage]
           out == LoadState(schema, currentVersion, migrations, state, answer)
       IN IF initialized
          THEN /\ last' = [inflight[i].call EXCEPT !.outcome = "resolved"]
               /\ UNCHANGED <<state, initialized, held>>
          ELSE /\ state' = IF out.resolved THEN EnsureVersion(out.state, currentVersion)
                           ELSE out.state
               /\ initialized' = (initialized \/ out.resolved)
               /\ last' = [inflight[i].call EXCEPT !.outcome = IF out.resolved THEN "resolved" ELSE "schema-error",
                                       !.read = IF fails THEN Item("error", <<>>) ELSE storage,
                                       !.branch = out.branch,
                                       !.failure = out.failure,
                                       !.invoked = out.invoked]
               /\ held' = [held EXCEPT !.live = held.live /\ ~out.resolved /\ out.state = state]
    /\ UNCHANGED <<settings, storage, written, writes>>

\* init() as it would be if it saved the state it ends with whenever it
\* did not take the stored object as it read it.
GetItemDone_SavesFallback(i, fails) ==
    /\ i \in 1..Len(inflight)
    /\ inflight[i].op = "getItem"
    /\ inflight' = SubSeq(inflight, 1, i - 1) \o SubSeq(inflight, i + 1, Len(inflight))
    /\ LET answer == [ok |-> ~fails, item |-> storage]
           out == LoadState(schema, currentVersion, migrations, state, answer)
       IN /\ state' = IF out.resolved THEN EnsureVersion(out.state, currentVersion)
                      ELSE out.state
          /\ initialized' = (initialized \/ out.resolved)
          /\ last' = [inflight[i].call EXCEPT !.outcome = IF out.resolved THEN "resolved" ELSE "schema-error",
                                  !.read = IF fails THEN Item("error", <<>>) ELSE storage,
                                  !.branch = out.branch,
                                  !.failure = out.failure,
                                  !.invoked = out.invoked]
          /\ held' = [held EXCEPT !.live = held.live /\ ~out.resolved /\ out.state = state]
          /\ storage' = IF out.resolved /\ (out.failure # "none" \/ out.branch # "same")
                        THEN JSONStringify(state'.obj)
                        ELSE storage
    /\ UNCHANGED <<settings, written, writes>>

\* The adapter answers getItem, with the stored item or with a rejection,
\* and init() runs to its end.
GetItemDone(i, fails) ==
    /\ i \in 1..Len(inflight)
    /\ inflight[i].op = "getItem"
    /\ inflight' = SubSeq(inflight, 1, i - 1) \o SubSeq(inflight, i + 1, Len(inflight))
    /\ LET answer == [ok |-> ~fails, item |-> storage]
           out == LoadState(schema, currentVersion, migrations, state, answer)
       IN /\ state' = IF out.resolved THEN EnsureVersion(out.state, currentVersion)
                      ELSE out.state
          /\ initialized' = (initialized \/ out.resolved)
          /\ last' = [inflight[i].call EXCEPT !.outcome = IF out.resolved THEN "resolved" ELSE "schema-error",
                                  !.read = IF fails THEN Item("error", <<>>) ELSE storage,
                                  !.branch = out.branch,
                                  !.failure = out.failure,
                                  !.invoked = out.invoked]
          /\ held' = [held EXCEPT !.live = held.live /\ ~out.resolved /\ out.state = state]
    /\ UNCHANGED <<settings, storage, written, writes>>

\* get(key)
Get(key) ==
    /\ last' = IF NotInitialized
               THEN Call("get", "not-initialized", "_version", Undefined, "none")
               ELSE Call("get", "resolved", key, state.obj[key], "none")
    /\ UNCHANGED <<config, storage, state, initialized, inflight, written, writes>>

\* getAll()
GetAll ==
    /\ last' = IF NotInitialized
               THEN Call("getAll", "not-initialized", "_version", Undefined, "none")
               ELSE Call("getAll", "resolved", "_version", Undefined, "none")
    /\ held' = IF ~NotInitialized /\ callers = "keeping"
               THEN [kept |-> TRUE, live |-> TRUE, val |-> state]
               ELSE held
    /\ UNCHANGED <<settings, storage, state, initialized, inflight, written, writes>>

\* getSchemaVersion()
GetSchemaVersion ==
    /\ last' = Call("getSchemaVersion", "resolved", "_version", Num(currentVersion), "none")
    /\ UNCHANGED <<config, storage, state, initialized, inflight, written, writes>>

\* getSchemaHash() without the ?? "".
GetSchemaHash_NoFallback ==
    /\ last' = Call("getSchemaHash", "resolved", "_version",
                    TableEntry(schemaHashes, currentVersion), "none")
    /\ UNCHANGED <<config, storage, state, initialized, inflight, written, writes>>

\* getSchemaHash(): schemaHashes[currentVersion] ?? ""
GetSchemaHash ==
    /\ last' = Call("getSchemaHash", "resolved", "_version",
                    IF TableEntry(schemaHashes, currentVersion) = Undefined
                    THEN Str("")
                    ELSE TableEntry(schemaHashes, currentVersion), "none")
    /\ UNCHANGED <<config, storage, state, initialized, inflight, written, writes>>

\* getSchemaHashForVersion(version): schemaHashes[version]
GetSchemaHashForVersion(version) ==
    /\ last' = Call("getSchemaHashForVersion", "resolved", "_version",
                    TableEntry(schemaHashes, version), "none")
    /\ UNCHANGED <<config, storage, state, initialized, inflight, written, writes>>

\* set() as it would be if it saved the field it was given and nothing else.
SetBody_WritesField(op, key, value, updaterRan) ==
    LET assigned == JsObject([state.obj EXCEPT ![key] = value])
        validated == SchemaParse(schema, assigned)
    IN IF validated.ok
       THEN /\ state' = validated.val
            /\ last' = [Call(op, "pending", key, value, "setItem")
                          EXCEPT !.updater = updaterRan]
            /\ inflight' = Append(inflight,
                                  Request("setItem",
                                          Item("object", Members(validated.val.obj, <<key>>)),
                                          last'))
            /\ held' = IF held.live THEN [held EXCEPT !.live = FALSE, !.val = assigned]
                       ELSE held
       ELSE /\ state' = assigned
            /\ UNCHANGED inflight
            /\ held' = IF held.live THEN [held EXCEPT !.val = assigned] ELSE held
            /\ last' = [Call(op, "validation-error", key, value, "none")
                          EXCEPT !.updater = updaterRan]

\* The body of set(key, value) after its check, for the call named op:
\* assign the field, validate the whole state, issue storage.setItem.
SetBody(op, key, value, updaterRan) ==
    LET assigned == JsObject([state.obj EXCEPT ![key] = value])
        validated == SchemaParse(schema, assigned)
    IN IF validated.ok
       THEN /\ state' = validated.val
            /\ last' = [Call(op, "pending", key, value, "setItem")
                          EXCEPT !.updater = updaterRan]
            /\ inflight' = Append(inflight,
                                  Request("setItem", JSONStringify(validated.val.obj), last'))
            /\ held' = IF held.live THEN [held EXCEPT !.live = FALSE, !.val = assigned]
                       ELSE held
       ELSE /\ state' = assigned
            /\ UNCHANGED inflight
            /\ held' = IF held.live THEN [held EXCEPT !.val = assigned] ELSE held
            /\ last' = [Call(op, "validation-error", key, value, "none")
                          EXCEPT !.updater = updaterRan]

\* set(key, value), up to the await of storage.setItem.
SetCall(key, value) ==
    /\ IF NotInitialized
       THEN /\ last' = Call("set", "not-initialized", "_version", Undefined, "none")
            /\ UNCHANGED <<state, inflight, written, writes, held>>
       ELSE /\ Awaited
            /\ writes < WriteBudget
            /\ writes' = writes + 1
            /\ SetBody("set", key, value, FALSE)
            /\ written' = NoWrite
    /\ UNCHANGED <<settings, storage, initialized>>

\* update(key, updater): the updater runs on the current value, then set().
\* update() as it would be if the value handed to the updater were one read
\* earlier than the call's own step: the one the stored item holds.
UpdateCall_ReadsStored(key, u) ==
    /\ IF NotInitialized
       THEN /\ last' = Call("update", "not-initialized", "_version", Undefined, "none")
            /\ UNCHANGED <<state, inflight, written, writes, held>>
       ELSE /\ Awaited
            /\ writes < WriteBudget
            /\ writes' = writes + 1
            /\ u = "increment" => state.obj[key].k = "number" /\ state.obj[key].n <= MaxVersion
            /\ SetBody("update", key,
                       ApplyUpdater(u, IF JSONParse(storage).ok /\ JSONParse(storage).val.isObject
                                          /\ JSONParse(storage).val.obj[key].k = "number"
                                       THEN JSONParse(storage).val.obj[key]
                                       ELSE state.obj[key]), TRUE)
            /\ written' = NoWrite
    /\ UNCHANGED <<settings, storage, initialized>>

UpdateCall(key, u) ==
    /\ IF NotInitialized
       THEN /\ last' = Call("update", "not-initialized", "_version", Undefined, "none")
            /\ UNCHANGED <<state, inflight, written, writes, held>>
       ELSE /\ Awaited
            /\ writes < WriteBudget
            /\ writes' = writes + 1
            /\ u = "increment" => state.obj[key].k = "number" /\ state.obj[key].n <= MaxVersion
            /\ SetBody("update", key, ApplyUpdater(u, state.obj[key]), TRUE)
            /\ written' = NoWrite
    /\ UNCHANGED <<settings, storage, initialized>>

\* A setItem that stores the item also when it rejects.
SetItemDone_StoresOnFailure(i, fails) ==
    /\ i \in 1..Len(inflight)
    /\ inflight[i].op = "setItem"
    /\ inflight' = SubSeq(inflight, 1, i - 1) \o SubSeq(inflight, i + 1, Len(inflight))
    /\ storage' = inflight[i].item
    /\ last' = [inflight[i].call EXCEPT
                    !.outcome = IF fails THEN "adapter-error" ELSE "resolved"]
    /\ written' = IF fails THEN written
                  ELSE [stage |-> "set", key |-> inflight[i].call.key,
                        value |-> inflight[i].call.value]
    /\ UNCHANGED <<config, state, initialized, writes>>

\* The adapter answers setItem: it stores the item and resolves, or rejects.
SetItemDone(i, fails) ==
    /\ i \in 1..Len(inflight)
    /\ inflight[i].op = "setItem"
    /\ inflight' = SubSeq(inflight, 1, i - 1) \o SubSeq(inflight, i + 1, Len(inflight))
    /\ storage' = IF fails THEN storage ELSE inflight[i].item
    /\ last' = [inflight[i].call EXCEPT
                    !.outcome = IF fails THEN "adapter-error" ELSE "resolved"]
    /\ written' = IF fails THEN written
                  ELSE [stage |-> "set", key |-> inflight[i].call.key,
                        value |-> inflight[i].call.value]
    /\ UNCHANGED <<config, state, initialized, writes>>

\* clear() as it would be if the removal were requested before the reset:
\* the in-memory state is still the old one while removeItem is pending.
ClearCall_RemoveFirst ==
    /\ writes < WriteBudget
    /\ writes' = writes + 1
    /\ Awaited
    /\ LET d == GetDefaults(schema, currentVersion)
       IN IF d.ok
          THEN /\ last' = Call("clear", "pending", "_version", Undefined, "removeItem")
               /\ inflight' = Append(inflight, Request("removeItem", NoItem, last'))
               /\ UNCHANGED <<state, held>>
          ELSE /\ last' = Call("clear", "schema-error", "_version", Undefined, "none")
               /\ UNCHANGED <<state, inflight, held>>
    /\ written' = NoWrite
    /\ UNCHANGED <<settings, storage, initialized>>

\* clear(), up to the await of storage.removeItem.
ClearCall ==
    /\ writes < WriteBudget
    /\ writes' = writes + 1
    /\ Awaited
    /\ LET d == GetDefaults(schema, currentVersion)
       IN IF d.ok
          THEN /\ state' = d.val
               /\ last' = Call("clear", "pending", "_version", Undefined, "removeItem")
               /\ inflight' = Append(inflight, Request("removeItem", NoItem, last'))
               /\ held' = [held EXCEPT !.live = FALSE]
          ELSE /\ last' = Call("clear", "schema-error", "_version", Undefined, "none")
               /\ UNCHANGED <<state, inflight, held>>
    /\ written' = NoWrite
    /\ UNCHANGED <<settings, storage, initialized>>

\* removeItem as an adapter that resolves without deleting the item.
RemoveItemDone_KeepsItem(i, fails) ==
    /\ i \in 1..Len(inflight)
    /\ inflight[i].op = "removeItem"
    /\ inflight' = SubSeq(inflight, 1, i - 1) \o SubSeq(inflight, i + 1, Len(inflight))
    /\ storage' = storage
    /\ last' = [inflight[i].call EXCEPT
                    !.outcome = IF fails THEN "adapter-error" ELSE "resolved"]
    /\ written' = IF fails THEN written
                  ELSE [stage |-> "cleared", key |-> "_version", value |-> Undefined]
    /\ UNCHANGED <<config, state, initialized, writes>>

\* The adapter answers removeItem: it deletes the item and resolves, or rejects.
\* written records a clear that resolved, until the next write call.
RemoveItemDone(i, fails) ==
    /\ i \in 1..Len(inflight)
    /\ inflight[i].op = "removeItem"
    /\ inflight' = SubSeq(inflight, 1, i - 1) \o SubSeq(inflight, i + 1, Len(inflight))
    /\ storage' = IF fails THEN storage ELSE NoItem
    /\ last' = [inflight[i].call EXCEPT
                    !.outcome = IF fails THEN "adapter-error" ELSE "resolved"]
    /\ written' = IF fails THEN written
                  ELSE [stage |-> "cleared", key |-> "_version", value |-> Undefined]
    /\ UNCHANGED <<config, state, initialized, writes>>

\* createPersistedState called again with the same configuration and the
\* same adapter (a restart): a manager with state = null, not initialized.
NewManager ==
    /\ inflight = <<>>
    /\ state' = JsNull
    /\ initialized' = FALSE
    /\ last' = Call("create", "resolved", "_version", Undefined, "none")
    /\ written' = IF written.stage = "set" THEN [written EXCEPT !.stage = "reloaded"]
                  ELSE IF written.stage = "cleared"
                       THEN [written EXCEPT !.stage = "cleared-reloaded"]
                       ELSE written
    /\ held' = [held EXCEPT !.live = FALSE]
    /\ UNCHANGED <<settings, storage, inflight, writes>>

Next ==
    \/ InitCall
    \/ \E i \in 1..Len(inflight), fails \in BOOLEAN : GetItemDone(i, fails)
    \/ \E key \in Keys : Get(key)
    \/ GetAll
    \/ \E key \in Keys, value \in SetValues : SetCall(key, value)
    \/ \E key \in Keys, u \in Updaters : UpdateCall(key, u)
    \/ \E i \in 1..Len(inflight), fails \in BOOLEAN : SetItemDone(i, fails)
    \/ ClearCall
    \/ \E i \in 1..Len(inflight), fails \in BOOLEAN : RemoveItemDone(i, fails)
    \/ NewManager

Spec == Init /\ [][Next]_vars

\* ------------------------------------------------------ overlapping calls
\* The same manager used by callers that do not await: up to MaxInflight
\* adapter requests pend at once and the adapter answers them in any order.
OverlapItems ==
    {NoItem, JSONStringify(StoredObject(Num(MaxVersion - 1), Str("a"), Num(1)))}

OverlapInit ==
    /\ callers = "overlapping"
    /\ held = NotHeld
    /\ schemaHashes = OneHash
    /\ pure = NoCall
    /\ run = NoRun
    /\ schema = SchemaWithDefaults
    /\ currentVersion \in CurrentVersions
    /\ migrations = Ascending([v \in 1..MaxVersion |-> "rename"], 1)
    /\ storage \in OverlapItems
    /\ state = JsNull
    /\ initialized = FALSE
    /\ inflight = <<>>
    /\ last = Call("create", "resolved", "_version", Undefined, "none")
    /\ written = NoWrite
    /\ writes = 0

SpecOverlap == OverlapInit /\ [][Next]_vars

\* ------------------------------------------------------ kept snapshots
\* The manager used by callers that await every call and keep the object
\* getAll() returned to them.
KeepItems ==
    {NoItem,
     JSONStringify(StoredObject(Num(MaxVersion), Str("a"), Num(1))),
     JSONStringify(StoredObject(Num(MaxVersion - 1), Str("a"), Num(1)))}

KeepInit ==
    /\ callers = "keeping"
    /\ held = NotHeld
    /\ schemaHashes = OneHash
    /\ pure = NoCall
    /\ run = NoRun
    /\ schema \in Schemas
    /\ currentVersion \in CurrentVersions
    /\ migrations = Ascending([v \in 1..MaxVersion |-> "rename"], 1)
    /\ storage \in KeepItems
    /\ state = JsNull
    /\ initialized = FALSE
    /\ inflight = <<>>
    /\ last = Call("create", "resolved", "_version", Undefined, "none")
    /\ written = NoWrite
    /\ writes = 0

SpecKeep == KeepInit /\ [][Next]_vars

\* ------------------------------------------------------ ordered writes
\* One manager used by callers that await init() and then call set and
\* update with values the schema accepts, without awaiting them, over an
\* adapter that stores the items in the order of the setItem calls, as the
\* memory adapter does (its setItem runs store.set before it returns).

\* A setItem stored out of turn: any pending one may be answered.
IssuedFirst_AnyOrder(i) == TRUE

\* Request i is the setItem issued first among those pending.
IssuedFirst(i) ==
    \A j \in 1..(i - 1) : inflight[j].op # "setItem"

OrderedItems ==
    {NoItem, JSONStringify(StoredObject(Num(MaxVersion), Str("a"), Num(1)))}

OrderedInit ==
    /\ callers = "ordered"
    /\ held = NotHeld
    /\ schemaHashes = OneHash
    /\ pure = NoCall
    /\ run = NoRun
    /\ schema \in Schemas
    /\ currentVersion \in CurrentVersions
    /\ migrations = Ascending([v \in 1..MaxVersion |-> "rename"], 1)
    /\ storage \in OrderedItems
    /\ state = JsNull
    /\ initialized = FALSE
    /\ inflight = <<>>
    /\ last = Call("create", "resolved", "_version", Undefined, "none")
    /\ written = NoWrite
    /\ writes = 0

OrderedNext ==
    \/ inflight = <<>> /\ InitCall
    \/ \E i \in 1..Len(inflight), fails \in BOOLEAN : GetItemDone(i, fails)
    \/ \E key \in Keys : Get(key)
    \/ \E key \in Keys, value \in SetValues :
           FieldAccepts(schema[key], value) /\ SetCall(key, value)
    \/ \E key \in Keys, u \in Updaters : UpdateCall(key, u)
    \/ \E i \in 1..Len(inflight), fails \in BOOLEAN :
           IssuedFirst(i) /\ SetItemDone(i, fails)

SpecOrdered == OrderedInit /\ [][OrderedNext]_vars

\* ------------------------------------------------------ schema hashes
\* The manager given any table of schema hashes, by callers that also call
\* the three accessors.
HashItems ==
    {NoItem,
     JSONStringify(StoredObject(Num(MaxVersion), Str("a"), Num(1))),
     JSONStringify(StoredObject(Num(MaxVersion - 1), Str("a"), Num(1)))}

HashInit ==
    /\ callers = "sequential"
    /\ held = NotHeld
    /\ schemaHashes \in HashTables
    /\ pure = NoCall
    /\ run = NoRun
    /\ schema = SchemaWithDefaults
    /\ currentVersion \in CurrentVersions
    /\ migrations = Ascending([v \in 1..MaxVersion |-> "rename"], 1)
    /\ storage \in HashItems
    /\ state = JsNull
    /\ initialized = FALSE
    /\ inflight = <<>>
    /\ last = Call("create", "resolved", "_version", Undefined, "none")
    /\ written = NoWrite
    /\ writes = 0

HashNext ==
    \/ Next
    \/ GetSchemaVersion
    \/ GetSchemaHash
    \/ \E version \in 0..(MaxVersion + 1) : GetSchemaHashForVersion(version)

SpecHashes == HashInit /\ [][HashNext]_vars

\* ------------------------------------------------------ runMigrations alone
\* runMigrations called directly, as its tests call it: any two versions,
\* any list of up to MaxMigrations migrations in any order, with gaps,
\* repeated versions and throwing migrate functions.
MaxMigrations == 3

RunKinds == {"trail", "throws", "throws-string"}

RunVersions == 0..(MaxVersion + 1)

RunMigrationValues == {Migration(v, k) : v \in RunVersions \ {0}, k \in RunKinds}

RunLists == UNION {[1..n -> RunMigrationValues] : n \in 0..MaxMigrations}

RunStates ==
    {JsObject(StoredObject(Undefined, Str("a"), Num(0))),
     JsObject(StoredObject(Num(1), Str("b"), Num(1)))}

RunInit ==
    /\ \E jv \in RunStates, f \in RunVersions, t \in RunVersions, migs \in RunLists :
           run = RunRecord("called", jv, f, t, migs, NoRun.result)
    /\ callers = "sequential"
    /\ held = NotHeld
    /\ schemaHashes = OneHash
    /\ pure = NoCall
    /\ schema = SchemaWithDefaults
    /\ currentVersion = MaxVersion
    /\ migrations = <<>>
    /\ storage = NoItem
    /\ state = JsNull
    /\ initialized = FALSE
    /\ inflight = <<>>
    /\ last = Call("create", "resolved", "_version", Undefined, "none")
    /\ written = NoWrite
    /\ writes = 0

\* The caller's array as it would be left by a sort made in place.
CallerArray_SortedInPlace(migs) == SortedMigrations(migs)

\* The caller's array after the call: [...migrations].sort(...) sorts a
\* copy, and nothing else touches the array.
CallerArray(migs) == migs

RunCall ==
    /\ run.stage = "called"
    /\ run' = [run EXCEPT
                  !.stage = "returned",
                  !.migrations = CallerArray(run.migrations),
                  !.result = RunMigrations(run.state, run.fromVersion,
                                           run.toVersion, run.migrations)]
    /\ UNCHANGED <<schema, currentVersion, migrations, storage, state,
                   initialized, inflight, last, written, writes, callers, held,
                   schemaHashes, pure>>

RunNext == RunCall

SpecRun == RunInit /\ [][RunNext]_vars

\* ---------------------------------------------------------------- properties
\* The latest call is an init() that read storage and has run to its end.
InitDone == last.op = "init" /\ last.adapter = "getItem" /\ last.outcome # "pending"

\* The object init() decoded from the item it read.
ReadObject == JSONParse(last.read).val.obj

ReadIsObject == last.read.kind = "object"

ReadVersionIsNumber ==
    ReadObject["_version"] = Undefined \/ ReadObject["_version"].k = "number"

\* The registered migration of version v, looked up without sorting.
Registered(v) == \E i \in 1..Len(migrations) : migrations[i].version = v

MigrationOf(v) ==
    migrations[CHOOSE i \in 1..Len(migrations) : migrations[i].version = v]

\* The migrations of versions v..currentVersion applied in ascending order.
RECURSIVE ApplyFrom(_, _)
ApplyFrom(v, jv) ==
    IF v > currentVersion THEN Ok(jv)
    ELSE LET r == Migrate(MigrationOf(v), jv)
         IN IF r.ok THEN ApplyFrom(v + 1, r.val) ELSE Thrown

AllRegisteredFrom(v) == \A w \in v..currentVersion : Registered(w)

ReadIsOlder ==
    ReadIsObject /\ ReadVersionIsNumber /\ StoredVersion(ReadObject) < currentVersion

MigratedRead == ApplyFrom(StoredVersion(ReadObject) + 1, JsObject(ReadObject))

\* The cases in which init() is to fall back: the read failed, nothing
\* usable is stored, the stored object is invalid, a migration is missing
\* or throws, or the migrated object is invalid.
FallbackCase ==
    \/ last.read.kind \in {"error", "none", "empty", "garbage", "null"}
    \/ /\ ReadIsObject /\ ReadVersionIsNumber
       /\ StoredVersion(ReadObject) = currentVersion
       /\ ~SchemaParse(schema, JsObject(ReadObject)).ok
    \/ /\ ReadIsOlder
       /\ \/ ~AllRegisteredFrom(StoredVersion(ReadObject) + 1)
          \/ ~MigratedRead.ok
          \/ ~SchemaParse(schema, MigratedRead.val).ok

\* C1: after init() and an awaited set(k, v) of a defined value that
\* resolves, get(k) returns v, and so does get(k) of a new manager over the
\* same adapter after its own init().
C1_RoundTrip ==
    (initialized /\ written.stage \in {"set", "reloaded"} /\ written.value # Undefined)
        => state.obj[written.key] = written.value

C3_InitAlwaysResolves ==
    InitDone => (last.outcome = "resolved" /\ ~NotInitialized)

\* C4: an init() call made once the manager is initialized reads nothing
\* from the adapter and changes neither the state nor the flag.
C4_InitIdempotent ==
    [][(initialized /\ InitCall) =>
          /\ state' = state
          /\ initialized' = initialized
          /\ storage' = storage
          /\ inflight' = inflight
          /\ last'.adapter = "none"
          /\ last'.outcome = "resolved"]_vars

C4_Witness ==
    /\ last.op = "init"
    /\ last.adapter = "none"
    /\ last.outcome = "resolved"
    /\ written.stage = "set"
    /\ written.value # Undefined
    /\ state.obj[written.key] = written.value
    /\ storage = JSONStringify(state.obj)

\* C5: when the stored version is lower than currentVersion, every
\* migration in between is registered and succeeds and the result is
\* valid, init() resolves with the validated result of applying them in
\* ascending order, _version = currentVersion, and the stored fields no
\* migration touches keep their values.
C5_MigratedState ==
    (InitDone /\ ReadIsOlder /\ ~FallbackCase) =>
        /\ last.outcome = "resolved"
        /\ ~NotInitialized
        /\ state = JsObject([SchemaParse(schema, MigratedRead.val).val.obj
                               EXCEPT !["_version"] = Num(currentVersion)])
        /\ ReadObject["count"] # Undefined => state.obj["count"] = ReadObject["count"]
        /\ (/\ ReadObject["name"] # Undefined
            /\ \A v \in (StoredVersion(ReadObject) + 1)..currentVersion :
                   MigrationOf(v).kind # "rename")
              => state.obj["name"] = ReadObject["name"]

C5_Witness ==
    /\ InitDone
    /\ ReadIsOlder
    /\ ~FallbackCase
    /\ currentVersion - StoredVersion(ReadObject) >= 2
    /\ migrations[1].version > migrations[Len(migrations)].version
    /\ state.obj["name"] = Template("v", currentVersion)
    /\ state.obj["count"] = Num(1)

C7_VersionForced ==
    (InitDone /\ last.outcome = "resolved") =>
        (state.isObject /\ state.obj["_version"] = Num(currentVersion))

C7_Witness ==
    /\ InitDone
    /\ last.outcome = "resolved"
    /\ ReadIsOlder
    /\ ~FallbackCase
    /\ MigratedRead.val.obj["_version"] # Num(currentVersion)
    /\ state.obj["_version"] = Num(currentVersion)

\* C8: while the manager is not initialized, get, getAll, set and update
\* fail with the not-initialized error, issue no adapter request, run no
\* updater and leave the state as it is.
C8_NotInitializedCalls ==
    [][~initialized =>
          /\ \A key \in Keys : Get(key) => last'.outcome = "not-initialized"
          /\ GetAll => last'.outcome = "not-initialized"
          /\ \A key \in Keys, value \in SetValues :
                SetCall(key, value) =>
                    /\ last'.outcome = "not-initialized"
                    /\ last'.adapter = "none"
                    /\ state' = state /\ storage' = storage /\ inflight' = inflight
          /\ \A key \in Keys, u \in Updaters :
                UpdateCall(key, u) =>
                    /\ last'.outcome = "not-initialized"
                    /\ last'.adapter = "none"
                    /\ ~last'.updater
                    /\ state' = state /\ storage' = storage /\ inflight' = inflight]_vars

C8_Witness ==
    /\ ~initialized
    /\ state.isObject
    /\ last.op = "update"
    /\ last.outcome = "not-initialized"
    /\ ~last.updater

\* C9: a set() whose draft fails validation rejects, writes nothing to the
\* adapter and leaves the in-memory state as it was before the call.
C9_RejectedSetKeepsState ==
    [][\A key \in Keys, value \in SetValues :
          (SetCall(key, value) /\ last'.outcome = "validation-error") =>
              (state' = state /\ inflight' = inflight /\ storage' = storage)]_vars

\* C10: when setItem rejects, set rejects with the adapter's error; no
\* other request is issued, the in-memory state keeps the new value and
\* the stored item stays as it was.
C10_WriteFailure ==
    [][\A i \in 1..Len(inflight) :
          SetItemDone(i, TRUE) =>
              /\ last'.outcome = "adapter-error"
              /\ inflight' = <<>>
              /\ state' = state
              /\ storage' = storage
              /\ last'.op \in {"set", "update"}
              /\ last'.value # Undefined => state'.obj[last'.key] = last'.value]_vars

C10_Witness ==
    /\ last.op = "set"
    /\ last.outcome = "adapter-error"
    /\ ~NotInitialized
    /\ state.obj[last.key] = last.value
    /\ storage # JSONStringify(state.obj)
    /\ inflight = <<>>

ManagerIdle ==
    /\ callers = "sequential"
    /\ held = NotHeld
    /\ schemaHashes = OneHash
    /\ run = NoRun
    /\ schema = SchemaWithDefaults
    /\ currentVersion = MaxVersion
    /\ migrations = <<>>
    /\ storage = NoItem
    /\ state = JsNull
    /\ initialized = FALSE
    /\ inflight = <<>>
    /\ last = Call("create", "resolved", "_version", Undefined, "none")
    /\ written = NoWrite
    /\ writes = 0

ManagerUntouched ==
    UNCHANGED <<schema, currentVersion, migrations, storage, state, initialized,
                inflight, last, written, writes, run, callers, held, schemaHashes>>

\* A call of fn made with args, and the same call returned.
Called(fn, args) == [fn |-> fn, stage |-> "called", args |-> args]

ReturnedFrom(call, result) ==
    [fn |-> call.fn, stage |-> "returned", args |-> call.args, result |-> result]

\* ------------------------------------------------------ simpleHash
\* A 32-bit integer as its bit pattern, in two 16-bit halves.
Half == 65536

Word(hi, lo) == [hi |-> hi, lo |-> lo]

\* hash << 4
ShiftLeft5_By4(w) ==
    Word((w.hi * 16 + (w.lo * 16) \div Half) % Half, (w.lo * 16) % Half)

\* hash << 5
ShiftLeft5(w) ==
    Word((w.hi * 32 + (w.lo * 32) \div Half) % Half, (w.lo * 32) % Half)

\* a - b, on 32 bits
Sub32(a, b) ==
    LET borrow == IF a.lo < b.lo THEN 1 ELSE 0
    IN Word((a.hi - b.hi - borrow + 2 * Half) % Half, (a.lo - b.lo + Half) % Half)

\* a + char, on 32 bits
Add32(a, char) ==
    Word((a.hi + (a.lo + char) \div Half) % Half, (a.lo + char) % Half)

\* hash = (hash << 5) - hash + char; hash = hash & hash.  The subtraction and
\* the addition are exact in a double and the & keeps the low 32 bits, which
\* are those of the operations made on 32 bits.  Each pass of the loop works
\* on the 32-bit value the pass before it left.
HashStep(w, char) == Add32(Sub32(ShiftLeft5(w), w), char)

RECURSIVE HashLoop(_, _)
HashLoop(w, codes) ==
    IF codes = <<>> THEN w
    ELSE LET hash == HashStep(w, Head(codes))
         IN CASE hash.hi < Half /\ hash.lo < Half -> HashLoop(hash, Tail(codes))

\* The sign bit of the 32-bit integer.
IsNegative(w) == w.hi >= Half \div 2

\* Math.abs(hash): a magnitude of up to 2^31, in two halves.
Abs32(w) ==
    IF IsNegative(w)
    THEN Word(Half - w.hi - (IF w.lo = 0 THEN 0 ELSE 1), (Half - w.lo) % Half)
    ELSE w

Digits36 ==
    <<"0", "1", "2", "3", "4", "5", "6", "7", "8", "9", "a", "b", "c", "d", "e", "f",
      "g", "h", "i", "j", "k", "l", "m", "n", "o", "p", "q", "r", "s", "t", "u", "v",
      "w", "x", "y", "z">>

\* n.toString(36) of a magnitude, as the sequence of its characters.
RECURSIVE ToString36(_)
ToString36(m) ==
    IF m.hi = 0 /\ m.lo < 36 THEN <<Digits36[m.lo + 1]>>
    ELSE LET cur == (m.hi % 36) * Half + m.lo
         IN Append(ToString36(Word(m.hi \div 36, cur \div 36)), Digits36[(cur % 36) + 1])

\* simpleHash(str), str given as its character codes.
SimpleHash(codes) == ToString36(Abs32(HashLoop(Word(0, 0), codes)))

\* simpleHash called on the strings of up to MaxHashLength characters taken
\* from a few character codes, the lowest and the highest among them.
MaxHashLength == 6

HashCodes == {0, 49, 97, 65535}

HashStrings == UNION {[1..n -> HashCodes] : n \in 0..MaxHashLength}

SimpleHashInit ==
    /\ ManagerIdle
    /\ \E codes \in HashStrings : pure = Called("simpleHash", codes)

SimpleHashCall ==
    /\ pure.fn = "simpleHash"
    /\ pure.stage = "called"
    /\ pure' = ReturnedFrom(pure, SimpleHash(pure.args))
    /\ ManagerUntouched

SimpleHashNext == SimpleHashCall

SpecSimpleHash == SimpleHashInit /\ [][SimpleHashNext]_vars

\* ------------------------------------------------------ schema shape
\* A string as the sequence of its characters.  The printable characters in
\* the order of their codes, the first being code 32 (code 96 by its name).
Ascii ==
    <<" ", "!", "\"", "#", "$", "%", "&", "'", "(", ")", "*", "+", ",", "-", ".",
      "/", "0", "1", "2", "3", "4", "5", "6", "7", "8", "9", ":", ";", "<", "=",
      ">", "?", "@", "A", "B", "C", "D", "E", "F", "G", "H", "I", "J", "K", "L",
      "M", "N", "O", "P", "Q", "R", "S", "T", "U", "V", "W", "X", "Y", "Z", "[",
      "\\", "]", "^", "_", "grave", "a", "b", "c", "d", "e", "f", "g", "h", "i", "j",
      "k", "l", "m", "n", "o", "p", "q", "r", "s", "t", "u", "v", "w", "x", "y",
      "z", "{", "|", "}", "~">>

CharCode(ch) == 31 + CHOOSE i \in 1..Len(Ascii) : Ascii[i] = ch

CharCodes(chars) == [i \in 1..Len(chars) |-> CharCode(chars[i])]

\* a < b as Array.prototype.sort compares two strings: by code, a proper
\* prefix first.
RECURSIVE StringLess(_, _)
StringLess(a, b) ==
    IF b = <<>> THEN FALSE
    ELSE IF a = <<>> THEN TRUE
    ELSE IF Head(a) = Head(b) THEN StringLess(Tail(a), Tail(b))
    ELSE CharCode(Head(a)) < CharCode(Head(b))

RECURSIVE InsertKey(_, _)
InsertKey(key, sorted) ==
    IF sorted = <<>> THEN <<key>>
    ELSE IF StringLess(key, Head(sorted)) THEN <<key>> \o sorted
    ELSE <<Head(sorted)>> \o InsertKey(key, Tail(sorted))

\* keys.sort()
RECURSIVE SortKeys(_)
SortKeys(keys) ==
    IF keys = <<>> THEN <<>> ELSE InsertKey(Head(keys), SortKeys(Tail(keys)))

\* parts.join(sep)
RECURSIVE Join(_, _)
Join(parts, sep) ==
    IF parts = <<>> THEN <<>>
    ELSE IF Len(parts) = 1 THEN Head(parts)
    ELSE Head(parts) \o sep \o Join(Tail(parts), sep)

\* The schema nodes: one record per Zod class, with the fields of the class
\* that getTypeString reads and, for a default, the value it does not read.
ZodPrimitive(kind) == [kind |-> kind]

ZodWrapper(kind, inner) == [kind |-> kind, inner |-> inner]

ZodDefault(inner, value) == [kind |-> "ZodDefault", inner |-> inner, defaultValue |-> value]

ZodEnum(options) == [kind |-> "ZodEnum", options |-> options]

ZodLiteral(value) == [kind |-> "ZodLiteral", value |-> value]

ZodMembers(kind, members) == [kind |-> kind, members |-> members]

ZodIntersection(left, right) == [kind |-> "ZodIntersection", left |-> left, right |-> right]

\* A field of an object's shape; the shape is the sequence of its fields in
\* the order of their declaration.
ShapeField(key, node) == [key |-> key, node |-> node]

ZodObject(shape) == [kind |-> "ZodObject", shape |-> shape]

\* The values of a literal: a string, a number, a symbol.
StringValue(chars) == [type |-> "string", chars |-> chars]

NumberValue(n) == [type |-> "number", n |-> n]

SymbolValue == [type |-> "symbol"]

\* What a call gives: the string returned, or the error thrown.
Gives(str) == [threw |-> FALSE, str |-> str]

Raises(error) == [threw |-> TRUE, error |-> error]

RECURSIVE Decimal(_)
Decimal(n) ==
    IF n < 10 THEN <<Digits36[n + 1]>> ELSE Append(Decimal(n \div 10), Digits36[(n % 10) + 1])

\* `${value}`: the conversion a template literal makes of a value; that of a
\* symbol throws a TypeError.
TemplateString(value) ==
    IF value.type = "string" THEN Gives(value.chars)
    ELSE IF value.type = "number" THEN Gives(Decimal(value.n))
    ELSE Raises("TypeError")

\* `open${inner}close`
Interpolate(open, inner, close) ==
    IF inner.threw THEN inner ELSE Gives(open \o inner.str \o close)

\* `open${outs.join(sep)}close`, outs being computed in order: the first
\* error among them ends the call.
TemplateJoin(open, outs, sep, close) ==
    IF \E i \in 1..Len(outs) : outs[i].threw
    THEN outs[CHOOSE i \in 1..Len(outs) :
                 outs[i].threw /\ \A j \in 1..(i - 1) : ~outs[j].threw]
    ELSE Gives(open \o Join([i \in 1..Len(outs) |-> outs[i].str], sep) \o close)

FieldOf(shape, key) == shape[CHOOSE i \in 1..Len(shape) : shape[i].key = key].node

ObjectKeys(shape) == [i \in 1..Len(shape) |-> shape[i].key]

\* getTypeString(schema)
RECURSIVE GetTypeString(_)
GetTypeString(node) ==
    IF node.kind = "ZodString"
    THEN Gives(<<"s", "t", "r", "i", "n", "g">>)
    ELSE IF node.kind = "ZodNumber"
    THEN Gives(<<"n", "u", "m", "b", "e", "r">>)
    ELSE IF node.kind = "ZodBoolean"
    THEN Gives(<<"b", "o", "o", "l", "e", "a", "n">>)
    ELSE IF node.kind = "ZodNull"
    THEN Gives(<<"n", "u", "l", "l">>)
    ELSE IF node.kind = "ZodUndefined"
    THEN Gives(<<"u", "n", "d", "e", "f", "i", "n", "e", "d">>)
    ELSE IF node.kind = "ZodArray"
    THEN Interpolate(<<"a", "r", "r", "a", "y", "<">>, GetTypeString(node.inner), <<">">>)
    ELSE IF node.kind = "ZodObject"
    THEN LET keys == SortKeys(ObjectKeys(node.shape))
         IN TemplateJoin(<<"o", "b", "j", "e", "c", "t", "{">>,
                [i \in 1..Len(keys) |->
                    Interpolate(keys[i] \o <<":">>, GetTypeString(FieldOf(node.shape, keys[i])), <<>>)],
                <<",">>, <<"}">>)
    ELSE IF node.kind = "ZodOptional"
    THEN Interpolate(<<"o", "p", "t", "i", "o", "n", "a", "l", "<">>, GetTypeString(node.inner), <<">">>)
    ELSE IF node.kind = "ZodNullable"
    THEN Interpolate(<<"n", "u", "l", "l", "a", "b", "l", "e", "<">>, GetTypeString(node.inner), <<">">>)
    ELSE IF node.kind = "ZodDefault"
    THEN Interpolate(<<"d", "e", "f", "a", "u", "l", "t", "<">>, GetTypeString(node.inner), <<">">>)
    ELSE IF node.kind = "ZodEnum"
    THEN Gives(<<"e", "n", "u", "m", "[">> \o Join(node.options, <<",">>) \o <<"]">>)
    ELSE IF node.kind = "ZodLiteral"
    THEN Interpolate(<<"l", "i", "t", "e", "r", "a", "l", "<">>, TemplateString(node.value), <<">">>)
    ELSE IF node.kind = "ZodUnion"
    THEN TemplateJoin(<<"u", "n", "i", "o", "n", "<">>,
             [i \in 1..Len(node.members) |-> GetTypeString(node.members[i])], <<"|">>, <<">">>)
    ELSE IF node.kind = "ZodIntersection"
    THEN TemplateJoin(<<"i", "n", "t", "e", "r", "s", "e", "c", "t", "i", "o", "n", "<">>,
             <<GetTypeString(node.left), GetTypeString(node.right)>>, <<"&">>, <<">">>)
    ELSE IF node.kind = "ZodRecord"
    THEN Interpolate(<<"r", "e", "c", "o", "r", "d", "<">>, GetTypeString(node.inner), <<">">>)
    ELSE IF node.kind = "ZodTuple"
    THEN TemplateJoin(<<"t", "u", "p", "l", "e", "<">>,
             [i \in 1..Len(node.members) |-> GetTypeString(node.members[i])], <<",">>, <<">">>)
    ELSE IF node.kind = "ZodMap"
    THEN Interpolate(<<"m", "a", "p", "<">>, GetTypeString(node.inner), <<">">>)
    ELSE IF node.kind = "ZodSet"
    THEN Interpolate(<<"s", "e", "t", "<">>, GetTypeString(node.inner), <<">">>)
    ELSE IF node.kind = "ZodDate"
    THEN Gives(<<"d", "a", "t", "e">>)
    ELSE IF node.kind = "ZodAny"
    THEN Gives(<<"a", "n", "y">>)
    ELSE IF node.kind = "ZodUnknown"
    THEN Gives(<<"u", "n", "k", "n", "o", "w", "n">>)
    ELSE IF node.kind = "ZodVoid"
    THEN Gives(<<"v", "o", "i", "d">>)
    ELSE IF node.kind = "ZodNever"
    THEN Gives(<<"n", "e", "v", "e", "r">>)
    ELSE Gives(<<"u", "n", "k", "n", "o", "w", "n">>)

\* extractSchemaShape(schema), the schema being an object.
ExtractSchemaShape(object) ==
    LET keys == SortKeys(ObjectKeys(object.shape))
    IN TemplateJoin(<<"{">>,
           [i \in 1..Len(keys) |->
               Interpolate(keys[i] \o <<":">>, GetTypeString(FieldOf(object.shape, keys[i])), <<>>)],
           <<",">>, <<"}">>)

\* hashSchema(schema)
HashSchema(object) ==
    LET shape == ExtractSchemaShape(object)
    IN IF shape.threw THEN shape ELSE Gives(SimpleHash(CharCodes(shape.str)))

\* The schemas getTypeString is called on: nodes of every class it tests
\* for and of two it does not, nested up to MaxDepth levels.
MaxDepth == 2

Primitives ==
    {"ZodString", "ZodNumber", "ZodBoolean", "ZodNull", "ZodUndefined", "ZodDate",
     "ZodAny", "ZodUnknown", "ZodVoid", "ZodNever"}

Unrecognized == {"ZodBigInt", "UnknownType"}

Wrappers ==
    {"ZodArray", "ZodOptional", "ZodNullable", "ZodRecord", "ZodMap", "ZodSet"}

DefaultValues == {StringValue(<<"x">>), StringValue(<<"y">>)}

Leaves ==
    {ZodPrimitive(kind) : kind \in Primitives \cup Unrecognized}
        \cup {ZodEnum(<<<<"b">>, <<"a">>>>), ZodEnum(<<<<"a">>, <<"b">>>>)}
        \cup {ZodLiteral(StringValue(<<"t", "e", "s", "t">>)), ZodLiteral(NumberValue(12)),
              ZodLiteral(SymbolValue)}

FieldNames == {<<"b">>, <<"a", "b">>}

\* The type of the first field of an object, and of the first member of a
\* union, a tuple or an intersection, when it is not an object itself.
FieldTypes ==
    {ZodPrimitive("ZodString"), ZodPrimitive("ZodNumber"), ZodPrimitive("ZodUnknown"),
     ZodPrimitive("ZodBigInt"), ZodLiteral(SymbolValue)}
        \cup {ZodDefault(ZodPrimitive("ZodString"), value) : value \in DefaultValues}

\* The type of the second field of an object, and of the second member of
\* a union, a tuple or an intersection.
Siblings == {ZodPrimitive("ZodNumber")}

\* The objects of at most two fields, declared in either order.
ObjectsOver(nodes) ==
    LET pairs == {names \in FieldNames \X FieldNames : names[1] # names[2]}
    IN {ZodObject(<<>>)}
           \cup {ZodObject(<<ShapeField(key, node)>>) : key \in FieldNames, node \in nodes}
           \cup {ZodObject(<<ShapeField(names[1], node), ShapeField(names[2], type)>>) :
                    names \in pairs, node \in nodes, type \in Siblings}
           \cup {ZodObject(<<ShapeField(names[2], type), ShapeField(names[1], node)>>) :
                    names \in pairs, node \in nodes, type \in Siblings}

RECURSIVE Objects(_)
Objects(depth) ==
    IF depth = 0 THEN {} ELSE ObjectsOver(FieldTypes \cup Objects(depth - 1))

RECURSIVE Nodes(_)
Nodes(depth) ==
    IF depth = 0 THEN Leaves
    ELSE LET inner == Nodes(depth - 1)
             members == FieldTypes \cup Objects(depth - 1)
         IN Leaves
                \cup {ZodWrapper(kind, node) : kind \in Wrappers, node \in inner}
                \cup {ZodDefault(node, value) : node \in inner, value \in DefaultValues}
                \cup Objects(depth)
                \cup {ZodMembers(kind, <<node, type>>) :
                         kind \in {"ZodUnion", "ZodTuple"}, node \in members, type \in Siblings}
                \cup {ZodMembers(kind, <<type, node>>) :
                         kind \in {"ZodUnion", "ZodTuple"}, node \in members, type \in Siblings}
                \cup {ZodIntersection(node, type) : node \in members, type \in Siblings}

ShapeInit ==
    /\ ManagerIdle
    /\ \/ \E node \in Nodes(MaxDepth) : pure = Called("getTypeString", node)
       \/ \E object \in Objects(MaxDepth) :
              \E fn \in {"extractSchemaShape", "hashSchema"} : pure = Called(fn, object)

GetTypeStringCall ==
    /\ pure.fn = "getTypeString"
    /\ pure.stage = "called"
    /\ pure' = ReturnedFrom(pure, GetTypeString(pure.args))
    /\ ManagerUntouched

ExtractSchemaShapeCall ==
    /\ pure.fn = "extractSchemaShape"
    /\ pure.stage = "called"
    /\ pure' = ReturnedFrom(pure, ExtractSchemaShape(pure.args))
    /\ ManagerUntouched

HashSchemaCall ==
    /\ pure.fn = "hashSchema"
    /\ pure.stage = "called"
    /\ pure' = ReturnedFrom(pure, HashSchema(pure.args))
    /\ ManagerUntouched

ShapeNext == GetTypeStringCall \/ ExtractSchemaShapeCall \/ HashSchemaCall

SpecShape == ShapeInit /\ [][ShapeNext]_vars

\* ------------------------------------------------------ generated hashes
\* The fingerprint as the generation script computes it: its own
\* getTypeName and extractSchemaShape, then simpleHash.

\* schema.constructor.name, as the sequence of its characters.
ConstructorName(kind) ==
    CASE kind = "ZodString" -> <<"Z", "o", "d", "S", "t", "r", "i", "n", "g">>
      [] kind = "ZodNumber" -> <<"Z", "o", "d", "N", "u", "m", "b", "e", "r">>
      [] kind = "ZodBoolean" -> <<"Z", "o", "d", "B", "o", "o", "l", "e", "a", "n">>
      [] kind = "ZodNull" -> <<"Z", "o", "d", "N", "u", "l", "l">>
      [] kind = "ZodUndefined" -> <<"Z", "o", "d", "U", "n", "d", "e", "f", "i", "n", "e", "d">>
      [] kind = "ZodDate" -> <<"Z", "o", "d", "D", "a", "t", "e">>
      [] kind = "ZodAny" -> <<"Z", "o", "d", "A", "n", "y">>
      [] kind = "ZodUnknown" -> <<"Z", "o", "d", "U", "n", "k", "n", "o", "w", "n">>
      [] kind = "ZodVoid" -> <<"Z", "o", "d", "V", "o", "i", "d">>
      [] kind = "ZodNever" -> <<"Z", "o", "d", "N", "e", "v", "e", "r">>
      [] kind = "ZodBigInt" -> <<"Z", "o", "d", "B", "i", "g", "I", "n", "t">>
      [] kind = "UnknownType" -> <<"U", "n", "k", "n", "o", "w", "n", "T", "y", "p", "e">>
      [] kind = "ZodArray" -> <<"Z", "o", "d", "A", "r", "r", "a", "y">>
      [] kind = "ZodObject" -> <<"Z", "o", "d", "O", "b", "j", "e", "c", "t">>
      [] kind = "ZodOptional" -> <<"Z", "o", "d", "O", "p", "t", "i", "o", "n", "a", "l">>
      [] kind = "ZodNullable" -> <<"Z", "o", "d", "N", "u", "l", "l", "a", "b", "l", "e">>
      [] kind = "ZodDefault" -> <<"Z", "o", "d", "D", "e", "f", "a", "u", "l", "t">>
      [] kind = "ZodEnum" -> <<"Z", "o", "d", "E", "n", "u", "m">>
      [] kind = "ZodLiteral" -> <<"Z", "o", "d", "L", "i", "t", "e", "r", "a", "l">>
      [] kind = "ZodUnion" -> <<"Z", "o", "d", "U", "n", "i", "o", "n">>
      [] kind = "ZodIntersection" -> <<"Z", "o", "d", "I", "n", "t", "e", "r", "s", "e", "c", "t", "i", "o", "n">>
      [] kind = "ZodRecord" -> <<"Z", "o", "d", "R", "e", "c", "o", "r", "d">>
      [] kind = "ZodTuple" -> <<"Z", "o", "d", "T", "u", "p", "l", "e">>
      [] kind = "ZodMap" -> <<"Z", "o", "d", "M", "a", "p">>
      [] kind = "ZodSet" -> <<"Z", "o", "d", "S", "e", "t">>

\* str.toLowerCase()
ToLowerCase(str) ==
    [i \in 1..Len(str) |->
        IF CharCode(str[i]) \in 65..90 THEN Ascii[CharCode(str[i]) + 32 - 31] ELSE str[i]]

\* str.replace(pattern, ""), pattern being a string: its first occurrence
\* is removed.
Replace(str, pattern) ==
    LET at == {i \in 1..(Len(str) - Len(pattern) + 1) :
                  SubSeq(str, i, i + Len(pattern) - 1) = pattern}
    IN IF at = {} THEN str
       ELSE LET first == CHOOSE i \in at : \A j \in at : i <= j
            IN SubSeq(str, 1, first - 1) \o SubSeq(str, first + Len(pattern), Len(str))

\* getTypeName(schema), schema being a node of one of the classes above.
RECURSIVE GetTypeName(_)
GetTypeName(node) ==
    IF node.kind = "ZodString"
    THEN Gives(<<"s", "t", "r", "i", "n", "g">>)
    ELSE IF node.kind = "ZodNumber"
    THEN Gives(<<"n", "u", "m", "b", "e", "r">>)
    ELSE IF node.kind = "ZodBoolean"
    THEN Gives(<<"b", "o", "o", "l", "e", "a", "n">>)
    ELSE IF node.kind = "ZodNull"
    THEN Gives(<<"n", "u", "l", "l">>)
    ELSE IF node.kind = "ZodUndefined"
    THEN Gives(<<"u", "n", "d", "e", "f", "i", "n", "e", "d">>)
    ELSE IF node.kind = "ZodArray"
    THEN Interpolate(<<"a", "r", "r", "a", "y", "<">>, GetTypeName(node.inner), <<">">>)
    ELSE IF node.kind = "ZodObject"
    THEN LET keys == SortKeys(ObjectKeys(node.shape))
         IN TemplateJoin(<<"o", "b", "j", "e", "c", "t", "{">>,
                [i \in 1..Len(keys) |->
                    Interpolate(keys[i] \o <<":">>, GetTypeName(FieldOf(node.shape, keys[i])), <<>>)],
                <<",">>, <<"}">>)
    ELSE IF node.kind = "ZodOptional"
    THEN Interpolate(<<"o", "p", "t", "i", "o", "n", "a", "l", "<">>, GetTypeName(node.inner), <<">">>)
    ELSE IF node.kind = "ZodNullable"
    THEN Interpolate(<<"n", "u", "l", "l", "a", "b", "l", "e", "<">>, GetTypeName(node.inner), <<">">>)
    ELSE IF node.kind = "ZodDefault"
    THEN Interpolate(<<"d", "e", "f", "a", "u", "l", "t", "<">>, GetTypeName(node.inner), <<">">>)
    ELSE IF node.kind = "ZodEnum"
    THEN Gives(<<"e", "n", "u", "m", "[">> \o Join(node.options, <<",">>) \o <<"]">>)
    ELSE IF node.kind = "ZodLiteral"
    THEN Interpolate(<<"l", "i", "t", "e", "r", "a", "l", "<">>, TemplateString(node.value), <<">">>)
    ELSE Gives(Replace(ToLowerCase(ConstructorName(node.kind)), <<"z", "o", "d">>))

\* extractSchemaShape(schema) of the script, the schema being an object.
GeneratedSchemaShape(object) ==
    LET keys == SortKeys(ObjectKeys(object.shape))
    IN TemplateJoin(<<"{">>,
           [i \in 1..Len(keys) |->
               Interpolate(keys[i] \o <<":">>, GetTypeName(FieldOf(object.shape, keys[i])), <<>>)],
           <<",">>, <<"}">>)

\* const shape = extractSchemaShape(schema); const hash = simpleHash(shape)
GeneratedHash(object) ==
    LET shape == GeneratedSchemaShape(object)
    IN IF shape.threw THEN shape ELSE Gives(SimpleHash(CharCodes(shape.str)))

GeneratedInit ==
    /\ ManagerIdle
    /\ \/ \E node \in Nodes(MaxDepth) : pure = Called("getTypeName", node)
       \/ \E object \in Objects(MaxDepth) :
              \E fn \in {"generated shape", "generated hash"} : pure = Called(fn, object)

GetTypeNameCall ==
    /\ pure.fn = "getTypeName"
    /\ pure.stage = "called"
    /\ pure' = ReturnedFrom(pure, GetTypeName(pure.args))
    /\ ManagerUntouched

GeneratedSchemaShapeCall ==
    /\ pure.fn = "generated shape"
    /\ pure.stage = "called"
    /\ pure' = ReturnedFrom(pure, GeneratedSchemaShape(pure.args))
    /\ ManagerUntouched

GeneratedHashCall ==
    /\ pure.fn = "generated hash"
    /\ pure.stage = "called"
    /\ pure' = ReturnedFrom(pure, GeneratedHash(pure.args))
    /\ ManagerUntouched

GeneratedNext == GetTypeNameCall \/ GeneratedSchemaShapeCall \/ GeneratedHashCall

SpecGenerated == GeneratedInit /\ [][GeneratedNext]_vars

\* ------------------------------------------------------ storage adapters
\* The bundled adapters, each over its underlying store: window.localStorage,
\* AsyncStorage, a Map.  A call of the underlying store fails or not; a Map
\* does not fail.
Adapters == {"localStorage", "asyncStorage", "memory"}

AdapterKeys == {"key1", "key2"}

AdapterValues == {Str("value1"), Str("value2")}

Null == [k |-> "null", n |-> 0, s |-> ""]

EmptyStore == [key \in AdapterKeys |-> Null]

UnderlyingError == Str("QuotaExceededError")

Resolved(value) == [settled |-> "resolved", value |-> value]

Rejected(error) == [settled |-> "rejected", value |-> error]

\* What a method leaves: how its promise settled, and the store.
Leaves_(outcome, store) == [outcome |-> outcome, store |-> store]

LocalStorageGetItem(store, key, fails) ==
    IF fails THEN Leaves_(Resolved(Null), store) ELSE Leaves_(Resolved(store[key]), store)

LocalStorageSetItem(store, key, value, fails) ==
    IF fails THEN Leaves_(Rejected(UnderlyingError), store)
    ELSE Leaves_(Resolved(Undefined), [store EXCEPT ![key] = value])

\* removeItem of the localStorage adapter with the catch of its setItem.
LocalStorageRemoveItem_Rethrows(store, key, fails) ==
    IF fails THEN Leaves_(Rejected(UnderlyingError), store)
    ELSE Leaves_(Resolved(Undefined), [store EXCEPT ![key] = Null])

LocalStorageRemoveItem(store, key, fails) ==
    IF fails THEN Leaves_(Resolved(Undefined), store)
    ELSE Leaves_(Resolved(Undefined), [store EXCEPT ![key] = Null])

AsyncStorageGetItem(store, key, fails) ==
    IF fails THEN Leaves_(Resolved(Null), store) ELSE Leaves_(Resolved(store[key]), store)

AsyncStorageSetItem(store, key, value, fails) ==
    IF fails THEN Leaves_(Rejected(UnderlyingError), store)
    ELSE Leaves_(Resolved(Undefined), [store EXCEPT ![key] = value])

AsyncStorageRemoveItem(store, key, fails) ==
    IF fails THEN Leaves_(Rejected(UnderlyingError), store)
    ELSE Leaves_(Resolved(Undefined), [store EXCEPT ![key] = Null])

MemoryGetItem(store, key) == Leaves_(Resolved(store[key]), store)

MemorySetItem(store, key, value) ==
    Leaves_(Resolved(Undefined), [store EXCEPT ![key] = value])

MemoryRemoveItem(store, key) == Leaves_(Resolved(Undefined), [store EXCEPT ![key] = Null])

\* An adapter, its store, and the last call made of it.
AdapterCall(op, key, value, fails, outcome) ==
    [op |-> op, key |-> key, value |-> value, fails |-> fails, outcome |-> outcome]

NoAdapterCall == AdapterCall("none", "none", Undefined, FALSE, Resolved(Undefined))

AdapterInit ==
    /\ ManagerIdle
    /\ \E adapter \in Adapters :
           pure = [fn |-> "adapter", stage |-> "created", adapter |-> adapter,
                   store |-> EmptyStore, call |-> NoAdapterCall]

AdapterSettles(op, key, value, fails, left) ==
    /\ pure' = [pure EXCEPT !.stage = "settled", !.store = left.store,
                            !.call = AdapterCall(op, key, value, fails, left.outcome)]
    /\ ManagerUntouched

AdapterGetItem(key, fails) ==
    /\ pure.fn = "adapter"
    /\ pure.adapter = "memory" => ~fails
    /\ AdapterSettles("getItem", key, Undefined, fails,
           IF pure.adapter = "localStorage" THEN LocalStorageGetItem(pure.store, key, fails)
           ELSE IF pure.adapter = "asyncStorage" THEN AsyncStorageGetItem(pure.store, key, fails)
           ELSE MemoryGetItem(pure.store, key))

AdapterSetItem(key, value, fails) ==
    /\ pure.fn = "adapter"
    /\ pure.adapter = "memory" => ~fails
    /\ AdapterSettles("setItem", key, value, fails,
           IF pure.adapter = "localStorage"
           THEN LocalStorageSetItem(pure.store, key, value, fails)
           ELSE IF pure.adapter = "asyncStorage"
           THEN AsyncStorageSetItem(pure.store, key, value, fails)
           ELSE MemorySetItem(pure.store, key, value))

AdapterRemoveItem(key, fails) ==
    /\ pure.fn = "adapter"
    /\ pure.adapter = "memory" => ~fails
    /\ AdapterSettles("removeItem", key, Undefined, fails,
           IF pure.adapter = "localStorage" THEN LocalStorageRemoveItem(pure.store, key, fails)
           ELSE IF pure.adapter = "asyncStorage"
           THEN AsyncStorageRemoveItem(pure.store, key, fails)
           ELSE MemoryRemoveItem(pure.store, key))

AdapterNext ==
    \E key \in AdapterKeys, fails \in BOOLEAN :
        \/ AdapterGetItem(key, fails)
        \/ \E value \in AdapterValues : AdapterSetItem(key, value, fails)
        \/ AdapterRemoveItem(key, fails)

SpecAdapters == AdapterInit /\ [][AdapterNext]_vars

\* ------------------------------------------------------ parseArgs
\* The settings of generate-migrations-index and the flag of each.
ConfigKeys == {"migrationsDir", "indexPath", "typesPath"}

Flags == {"--migrations-dir", "--index-path", "--types-path"}

FlagKey(flag) ==
    IF flag = "--migrations-dir" THEN "migrationsDir"
    ELSE IF flag = "--index-path" THEN "indexPath"
    ELSE "typesPath"

\* A field a JSON object does not have.
Missing == "(undefined)"

Truthy(value) == value # Missing /\ value # ""

MigrationsConfig(dir, index, types) ==
    [migrationsDir |-> dir, indexPath |-> index, typesPath |-> types]

defaultConfig ==
    MigrationsConfig("./src/migrations", "./src/migrations/index.ts", "schema-versioned-storage")

\* A JSON file: absent or not JSON, or an object that holds the settings
\* under `migrations` (nested) or at its root (flat).
JsonFile(format, values) == [format |-> format, values |-> values]

Unreadable == JsonFile("unreadable", MigrationsConfig(Missing, Missing, Missing))

\* loadPackageJsonConfig(cwd): the settings of package.json, or null.
LoadPackageJsonConfig(packageJson) ==
    IF packageJson.format = "unreadable" THEN [found |-> FALSE, values |-> Unreadable.values]
    ELSE [found |-> TRUE, values |-> packageJson.values]

\* The assignments `if (from.x) config.x = from.x` of the three settings.
Assigned(conf, from) ==
    [key \in ConfigKeys |-> IF Truthy(from[key]) THEN from[key] ELSE conf[key]]

Parsed(conf) == [threw |-> FALSE, config |-> conf]

ParseFailed == [threw |-> TRUE, error |-> "Failed to load config file"]

\* The file a --config argument names: the one file of the directory, or
\* none.
ConfigFileName == "config.json"

ReadConfig(name, configFile) == IF name = ConfigFileName THEN configFile ELSE Unreadable

\* The loop over args, from index i.
RECURSIVE ArgsLoop(_, _, _, _)
ArgsLoop(conf, args, i, configFile) ==
    IF i > Len(args) THEN Parsed(conf)
    ELSE IF args[i] \in Flags /\ i < Len(args) /\ Truthy(args[i + 1])
    THEN ArgsLoop([conf EXCEPT ![FlagKey(args[i])] = args[i + 1]], args, i + 2, configFile)
    ELSE IF args[i] = "--config" /\ i < Len(args) /\ Truthy(args[i + 1])
    THEN LET file == ReadConfig(args[i + 1], configFile)
         IN IF file.format = "unreadable" THEN ParseFailed
            ELSE ArgsLoop(Assigned(conf, file.values), args, i + 2, configFile)
    ELSE ArgsLoop(conf, args, i + 1, configFile)

\* parseArgs(args, cwd), the directory cwd holding the two files.
ParseArgs(args, packageJson, configFile) ==
    LET packageJsonConfig == LoadPackageJsonConfig(packageJson)
        conf == IF packageJsonConfig.found
                THEN Assigned(defaultConfig, packageJsonConfig.values)
                ELSE defaultConfig
    IN ArgsLoop(conf, args, 1, configFile)

\* parseArgs called on the command lines of up to MaxArgs arguments.
MaxArgs == 4

ArgTokens == Flags \cup {"--config", "./cli/migrations", ConfigFileName}

CommandLines == UNION {[1..n -> ArgTokens] : n \in 0..MaxArgs}

PackageJsons ==
    {Unreadable,
     JsonFile("nested", MigrationsConfig("./pkg/migrations", Missing, "pkg-package")),
     JsonFile("flat", MigrationsConfig(Missing, "./pkg/index.ts", Missing))}

ConfigFiles ==
    {Unreadable,
     JsonFile("nested", MigrationsConfig("./config/migrations", Missing, "config-package")),
     JsonFile("flat", MigrationsConfig("./config/migrations", "./config/index.ts", Missing))}

ParseArgsInit ==
    /\ ManagerIdle
    /\ \E args \in CommandLines, packageJson \in PackageJsons, configFile \in ConfigFiles :
           pure = Called("parseArgs",
                         [args |-> args, packageJson |-> packageJson, configFile |-> configFile])

ParseArgsCall ==
    /\ pure.fn = "parseArgs"
    /\ pure.stage = "called"
    /\ pure' = ReturnedFrom(pure, ParseArgs(pure.args.args, pure.args.packageJson,
                                             pure.args.configFile))
    /\ ManagerUntouched

ParseArgsNext == ParseArgsCall

SpecParseArgs == ParseArgsInit /\ [][ParseArgsNext]_vars

\* ------------------------------------------------- properties of runMigrations
Returned == run.stage = "returned"

RunVersionsOf(migs) == {migs[i].version : i \in 1..Len(migs)}

DistinctVersions(migs) ==
    \A i, j \in 1..Len(migs) : migs[i].version = migs[j].version => i = j

\* The versions a run from fromVersion to toVersion has to pass through.
Expected == (run.fromVersion + 1)..run.toVersion

Throws(m) == m.kind \in {"throws", "throws-string"}

\* C13: runMigrations(x, n, n, migrations) returns x itself and invokes no
\* migrate function, whatever the list holds.
C13_SameVersion ==
    (Returned /\ run.fromVersion = run.toVersion) =>
        /\ run.result.ok
        /\ run.result.val = run.state
        /\ run.result.invoked = <<>>

C13_Witness ==
    /\ Returned
    /\ run.fromVersion = run.toVersion
    /\ run.fromVersion > 0
    /\ \E i \in 1..Len(run.migrations) : Throws(run.migrations[i])
    /\ run.fromVersion + 1 \notin RunVersionsOf(run.migrations)
    /\ run.result.val = run.state

\* C14: with fromVersion > toVersion runMigrations throws the error for a
\* backward migration and invokes no migrate function, whatever the list.
C14_Backward ==
    (Returned /\ run.fromVersion > run.toVersion) =>
        /\ ~run.result.ok
        /\ run.result.error = "backward"
        /\ run.result.invoked = <<>>

C14_Witness ==
    /\ Returned
    /\ run.fromVersion > run.toVersion
    /\ \E i \in 1..Len(run.migrations) :
           /\ run.migrations[i].version > run.toVersion
           /\ run.migrations[i].version <= run.fromVersion
    /\ run.result.error = "backward"

\* The lists that hold the same migrations as seq, in every order.
Reorderings(seq) ==
    LET n == Len(seq)
        orders == {f \in [1..n -> 1..n] : \A a, b \in 1..n : f[a] = f[b] => a = b}
    IN {[i \in 1..n |-> seq[f[i]]] : f \in orders}

\* C15: for a list whose versions are distinct, every reordering of the list
\* gives the same run: the same value returned or the same error thrown,
\* after the same migrate functions invoked in the same order.
C15_OrderIndependent ==
    (Returned /\ DistinctVersions(run.migrations)) =>
        \A p \in Reorderings(run.migrations) :
            RunMigrations(run.state, run.fromVersion, run.toVersion, p) = run.result

C15_Witness ==
    /\ Returned
    /\ DistinctVersions(run.migrations)
    /\ Len(run.migrations) >= 2
    /\ run.migrations[1].version > run.migrations[2].version
    /\ run.result.ok
    /\ Len(run.result.invoked) >= 2
    /\ \A i \in 1..(Len(run.result.invoked) - 1) :
           run.result.invoked[i] < run.result.invoked[i + 1]

\* C16: with fromVersion < toVersion and some version of
\* fromVersion+1..toVersion that no migration of the list has, runMigrations
\* throws the error for missing migrations, which names exactly the missing
\* versions, and invokes no migrate function.
C16_Missing ==
    (Returned /\ run.fromVersion < run.toVersion
              /\ Expected \ RunVersionsOf(run.migrations) # {}) =>
        /\ ~run.result.ok
        /\ run.result.error = "missing"
        /\ run.result.invoked = <<>>
        /\ {run.result.missing[i] : i \in 1..Len(run.result.missing)}
              = Expected \ RunVersionsOf(run.migrations)
        /\ Len(run.result.missing) = Cardinality(Expected \ RunVersionsOf(run.migrations))

C16_Witness ==
    /\ Returned
    /\ run.result.error = "missing"
    /\ Len(run.result.missing) >= 2
    /\ \E i \in 1..Len(run.migrations) : run.migrations[i].version \in Expected
    /\ run.result.invoked = <<>>

\* How often version v occurs in a sequence of versions.
Occurrences(versions, v) == Cardinality({i \in 1..Len(versions) : versions[i] = v})

\* The count left by the trail migrations of the given versions, applied in
\* that order to a state whose count is c.
RECURSIVE TrailOf(_, _)
TrailOf(c, versions) ==
    IF versions = <<>> THEN c
    ELSE TrailOf(c * 10 + Head(versions), Tail(versions))

\* C17: with fromVersion < toVersion, every version in between registered
\* and no selected migrate function throwing, the functions invoked are
\* those of the migrations with fromVersion < version <= toVersion and no
\* others, in ascending order of version, each applied to what the one
\* before returned, and the result is what the last one returned.
C17_FoldInOrder ==
    (Returned /\ run.fromVersion < run.toVersion
              /\ Expected \subseteq RunVersionsOf(run.migrations)
              /\ \A i \in 1..Len(run.migrations) :
                     run.migrations[i].version \in Expected => ~Throws(run.migrations[i])) =>
        LET inv == run.result.invoked
        IN /\ run.result.ok
           /\ \A i \in 1..(Len(inv) - 1) : inv[i] <= inv[i + 1]
           /\ \A v \in RunVersions :
                  Occurrences(inv, v) =
                      IF v \in Expected
                      THEN Cardinality({i \in 1..Len(run.migrations) :
                                           run.migrations[i].version = v})
                      ELSE 0
           /\ run.result.val =
                  JsObject([run.state.obj EXCEPT
                               !["_version"] = Num(run.toVersion),
                               !["count"] = Num(TrailOf(run.state.obj["count"].n, inv))])

C17_Witness ==
    /\ Returned
    /\ run.result.ok
    /\ run.fromVersion >= 1
    /\ run.result.invoked = <<run.fromVersion + 1, run.fromVersion + 2>>
    /\ Len(run.migrations) = 3
    /\ run.migrations[1].version = run.toVersion
    /\ run.migrations[2].version = run.fromVersion
    /\ run.result.val.obj["count"] =
           Num((run.state.obj["count"].n * 10 + run.fromVersion + 1) * 10
                  + run.fromVersion + 2)

\* The selected migrations whose migrate function throws.
SelectedThrowers ==
    {i \in 1..Len(run.migrations) :
        run.migrations[i].version \in Expected /\ Throws(run.migrations[i])}

\* Of those, the one the run reaches first: the lowest version and, among
\* equal versions, the earliest in the list.
FirstThrower ==
    CHOOSE i \in SelectedThrowers :
        \A j \in SelectedThrowers :
            \/ run.migrations[i].version < run.migrations[j].version
            \/ run.migrations[i].version = run.migrations[j].version /\ i <= j

\* C18: when every version is registered and the migrate function of a
\* selected migration throws, an Error or any other value, runMigrations
\* throws an error that names that migration's version, its description and
\* the message of what was thrown; no migrate function of a later version
\* has been invoked and no value is returned.
C18_StepFailure ==
    (Returned /\ run.fromVersion < run.toVersion
              /\ Expected \subseteq RunVersionsOf(run.migrations)
              /\ SelectedThrowers # {}) =>
        LET m == run.migrations[FirstThrower]
            inv == run.result.invoked
        IN /\ ~run.result.ok
           /\ run.result.error = "step"
           /\ run.result.val = JsNull
           /\ run.result.failed =
                  [version |-> m.version, description |-> m.kind,
                   cause |-> IF m.kind = "throws" THEN "Migration failed"
                             ELSE "String error"]
           /\ inv # <<>>
           /\ inv[Len(inv)] = m.version
           /\ \A i \in 1..Len(inv) : inv[i] <= m.version
           /\ Occurrences(inv, m.version) =
                  Cardinality({i \in 1..FirstThrower :
                                  run.migrations[i].version = m.version})

C18_Witness ==
    /\ Returned
    /\ run.result.error = "step"
    /\ run.result.failed.cause = "String error"
    /\ Len(run.result.invoked) = 2
    /\ run.result.failed.version = run.fromVersion + 2
    /\ run.result.failed.version < run.toVersion
    /\ run.result.val = JsNull

\* C19: when init() has migrated data stored under an older version and
\* validated the result, the stored item is the saved result: it decodes to
\* an object whose _version is currentVersion.
C19_MigratedIsSaved ==
    (InitDone /\ ReadIsOlder /\ ~FallbackCase /\ last.outcome = "resolved") =>
        /\ JSONParse(storage).ok
        /\ JSONParse(storage).val.obj["_version"] = Num(currentVersion)
        /\ storage = JSONStringify(state.obj)

\* The requests in flight that carry the write of an update() of key.
UpdateWrites(key) ==
    {i \in 1..Len(inflight) :
        /\ inflight[i].op = "setItem"
        /\ inflight[i].call.op = "update"
        /\ inflight[i].call.key = key}

\* C20, as stated: update() is not atomic, its read of the current value
\* and the write of the updater's result being separate steps between which
\* other calls on the instance take effect: the step that reads the value
\* and runs the updater leaves the state as it was.
C20_ReadThenWrite ==
    [][\A key \in Keys, u \in Updaters :
          (UpdateCall(key, u) /\ last'.updater) => state' = state]_vars

\* C20, amended: update() reads the current in-memory value, runs the
\* updater, replaces the state with the validated result and issues the
\* setItem that carries it in one step, whatever requests of other calls
\* are pending; none of those is touched. An update made while another
\* update's write is pending is given the value that update stored in memory.
C20_UpdateIsOneStep ==
    [][\A key \in Keys, u \in Updaters :
          (UpdateCall(key, u) /\ last'.outcome = "pending") =>
              /\ last'.value = ApplyUpdater(u, state.obj[key])
              /\ state'.obj[key] = last'.value
              /\ Len(inflight') = Len(inflight) + 1
              /\ \A i \in 1..Len(inflight) : inflight'[i] = inflight[i]
              /\ inflight'[Len(inflight')].item = JSONStringify(state'.obj)
              /\ storage' = storage]_vars

C20_Witness ==
    /\ ~NotInitialized
    /\ Len(inflight) = 2
    /\ UpdateWrites("count") = {1, 2}
    /\ inflight[2].call.value = Num(inflight[1].call.value.n + 1)
    /\ state.obj["count"] = inflight[2].call.value
    /\ writes = 2

\* The requests in flight that are the read of an init().
PendingReads == {i \in 1..Len(inflight) : inflight[i].op = "getItem"}

\* C21: an init() made while the manager is not initialized passes the
\* check and issues its own getItem even when the read of another init() is
\* pending; and every read that is answered assigns the state it loaded,
\* also when another init() has completed in between.
C21_InitNotExcluded ==
    [][/\ (InitCall /\ ~initialized) =>
              /\ last'.adapter = "getItem"
              /\ Len(inflight') = Len(inflight) + 1
              /\ inflight'[Len(inflight')].op = "getItem"
              /\ \A i \in 1..Len(inflight) : inflight'[i] = inflight[i]
       /\ \A i \in 1..Len(inflight), fails \in BOOLEAN :
              GetItemDone(i, fails) =>
                  LET out == LoadState(schema, currentVersion, migrations, state,
                                       [ok |-> ~fails, item |-> storage])
                  IN out.resolved =>
                        /\ state' = EnsureVersion(out.state, currentVersion)
                        /\ initialized']_vars

C21_Witness ==
    /\ initialized
    /\ last.op = "init"
    /\ last.adapter = "getItem"
    /\ last.outcome = "resolved"
    /\ PendingReads # {}
    /\ state.isObject

\* C22: the object getAll() returned is a snapshot: no later set, update or
\* clear on the manager, resolved or rejected, changes it.
C22_SnapshotUnchanged ==
    [][(held.kept /\ last'.op \in {"set", "update", "clear"}) =>
          held'.val = held.val]_vars

HashAccessors == {"getSchemaVersion", "getSchemaHash", "getSchemaHashForVersion"}

\* C23: the three accessors return without failing, issue no adapter
\* request and change neither the state, the flag nor the stored item,
\* before init() as after it: getSchemaVersion returns currentVersion,
\* getSchemaHash the table's entry for it or "" when it has none, and
\* getSchemaHashForVersion(v) the entry for v or undefined.
C23_Accessors ==
    [][/\ (GetSchemaVersion \/ GetSchemaHash
             \/ \E version \in 0..(MaxVersion + 1) : GetSchemaHashForVersion(version)) =>
              /\ last'.outcome = "resolved"
              /\ last'.adapter = "none"
              /\ UNCHANGED <<state, initialized, storage, inflight, held, settings>>
       /\ GetSchemaVersion => last'.value = Num(currentVersion)
       /\ GetSchemaHash =>
              /\ last'.value.k = "string"
              /\ currentVersion \in DOMAIN schemaHashes
                    /\ schemaHashes[currentVersion] # Undefined
                 => last'.value = schemaHashes[currentVersion]
              /\ ~(currentVersion \in DOMAIN schemaHashes
                      /\ schemaHashes[currentVersion] # Undefined)
                 => last'.value = Str("")
       /\ \A version \in 0..(MaxVersion + 1) :
              GetSchemaHashForVersion(version) =>
                  last'.value = IF version \in DOMAIN schemaHashes
                                THEN schemaHashes[version] ELSE Undefined]_vars

C23_Witness ==
    /\ last.op = "getSchemaHash"
    /\ last.value = Str("")
    /\ schemaHashes[currentVersion] = Undefined
    /\ ~initialized
    /\ state = JsNull
    /\ storage # NoItem

\* C29: the table of schema hashes is informational: what init() loads
\* from an answered read (the state, the flag, the branch taken, the
\* migrations invoked) is the same for every table, whatever is stored; no
\* call changes the table, and the calls other than the three accessors
\* return nothing taken from it.
C29_HashesInformational ==
    [][/\ \A i \in 1..Len(inflight), fails \in BOOLEAN :
              GetItemDone(i, fails) =>
                  \A hashes \in HashTables :
                      LET out == LoadStateWith(hashes, schema, currentVersion, migrations,
                                               state, [ok |-> ~fails, item |-> storage])
                      IN /\ state' = IF out.resolved
                                     THEN EnsureVersion(out.state, currentVersion)
                                     ELSE out.state
                         /\ initialized' = (initialized \/ out.resolved)
                         /\ last'.branch = out.branch
                         /\ last'.failure = out.failure
                         /\ last'.invoked = out.invoked
       /\ schemaHashes' = schemaHashes
       /\ (last' # last /\ last'.op \notin HashAccessors) =>
              last'.value \notin {Str("hash1"), Str("live")}]_vars

C29_Witness ==
    /\ InitDone
    /\ last.branch = "same"
    /\ last.outcome = "resolved"
    /\ schemaHashes[currentVersion] = Str("hash1")
    /\ ~NotInitialized
    /\ state.obj["name"] = Str("a")
    /\ state.obj["count"] = Num(1)

\* h * 31 + c wrapped to 32 bits, by multiplication.
TimesThirtyOnePlus(w, c) ==
    Word((w.hi * 31 + (w.lo * 31 + c) \div Half) % Half, (w.lo * 31 + c) % Half)

RECURSIVE Accumulate(_, _)
Accumulate(w, codes) ==
    IF codes = <<>> THEN w
    ELSE LET h == TimesThirtyOnePlus(w, Head(codes))
         IN CASE h.hi < Half /\ h.lo < Half -> Accumulate(h, Tail(codes))

\* The magnitude a string of base-36 digits denotes.
DigitValue(ch) == CHOOSE d \in 0..35 : Digits36[d + 1] = ch

RECURSIVE Parse36(_, _)
Parse36(m, chars) ==
    IF chars = <<>> THEN m
    ELSE Parse36(Word(m.hi * 36 + (m.lo * 36 + DigitValue(Head(chars))) \div Half,
                      (m.lo * 36 + DigitValue(Head(chars))) % Half),
                 Tail(chars))

SimpleHashReturned == pure.fn = "simpleHash" /\ pure.stage = "returned"

\* C25: simpleHash(s) is the base-36 rendering of |h|, h being 0 taken
\* through h := (h * 31 + c) wrapped to a signed 32-bit integer for each
\* character code c of s in order; it is never empty, has no leading zero
\* and is "0" for the empty string.
C25_SimpleHash ==
    SimpleHashReturned =>
        LET h == Accumulate(Word(0, 0), pure.args)
        IN /\ pure.result # <<>>
           /\ \A i \in 1..Len(pure.result) : \E d \in 1..36 : Digits36[d] = pure.result[i]
           /\ Parse36(Word(0, 0), pure.result) = Abs32(h)
           /\ Len(pure.result) > 1 => pure.result[1] # "0"
           /\ pure.args = <<>> => pure.result = <<"0">>

C25_Witness ==
    /\ SimpleHashReturned
    /\ Len(pure.args) = MaxHashLength
    /\ IsNegative(Accumulate(Word(0, 0), pure.args))
    /\ pure.args[1] = 65535
    /\ Len(pure.result) >= 6

\* The keys of a shape in ascending order: the arrangement of them in which
\* each is less than the next.
Ascending_(shape) ==
    CHOOSE keys \in [1..Len(shape) -> {shape[i].key : i \in 1..Len(shape)}] :
        \A i \in 1..(Len(shape) - 1) : StringLess(keys[i], keys[i + 1])

\* The strings of the fields of a shape, taken in the order of keys.
FieldStrings(shape, keys) ==
    [i \in 1..Len(keys) |-> keys[i] \o <<":">> \o GetTypeString(FieldOf(shape, keys[i])).str]

MemberStrings(members) == [i \in 1..Len(members) |-> GetTypeString(members[i]).str]

TypeStringReturned == pure.fn = "getTypeString" /\ pure.stage = "returned"

\* What getTypeString is stated to render, for the calls that return.
RendersAsStated(node, str) ==
    /\ node.kind \in Unrecognized => str = <<"u", "n", "k", "n", "o", "w", "n">>
    /\ node.kind = "ZodObject" =>
           str = <<"o", "b", "j", "e", "c", "t", "{">>
                     \o Join(FieldStrings(node.shape, Ascending_(node.shape)), <<",">>)
                     \o <<"}">>
    /\ node.kind = "ZodEnum" =>
           str = <<"e", "n", "u", "m", "[">> \o Join(node.options, <<",">>) \o <<"]">>
    /\ node.kind = "ZodUnion" =>
           str = <<"u", "n", "i", "o", "n", "<">>
                     \o Join(MemberStrings(node.members), <<"|">>) \o <<">">>
    /\ node.kind = "ZodTuple" =>
           str = <<"t", "u", "p", "l", "e", "<">>
                     \o Join(MemberStrings(node.members), <<",">>) \o <<">">>

\* C30: getTypeString returns a string, without throwing, for every schema
\* node, recognized or not and at any depth of nesting; a node of a class it
\* does not test for gives "unknown"; the keys of an object are rendered in
\* sorted order, the values of an enum and the members of a union or a
\* tuple in the order of their declaration.
C30_Total ==
    TypeStringReturned =>
        /\ ~pure.result.threw
        /\ RendersAsStated(pure.args, pure.result.str)

\* The sequences that hold the elements of a sequence in some order.
Arrangements(seq) ==
    {[i \in 1..Len(seq) |-> seq[f[i]]] :
        f \in {g \in [1..Len(seq) -> 1..Len(seq)] :
                  \A i, j \in 1..Len(seq) : g[i] = g[j] => i = j}}

\* The sequences whose i-th element is taken from the i-th set.
Choices(sets) ==
    {f \in [1..Len(sets) -> UNION {sets[i] : i \in 1..Len(sets)}] :
        \A i \in 1..Len(sets) : f[i] \in sets[i]}

\* The schemas with the field names and field types of a schema: its keys
\* declared in any order, at the root and in the objects nested in it, and
\* its defaults given any value.
RECURSIVE Rebuilds(_)
Rebuilds(node) ==
    IF node.kind = "ZodObject"
    THEN UNION {{ZodObject([i \in 1..Len(shape) |-> ShapeField(shape[i].key, nodes[i])]) :
                    nodes \in Choices([i \in 1..Len(shape) |-> Rebuilds(shape[i].node)])} :
                shape \in Arrangements(node.shape)}
    ELSE IF node.kind = "ZodDefault"
    THEN {ZodDefault(inner, value) : inner \in Rebuilds(node.inner), value \in DefaultValues}
    ELSE IF node.kind \in Wrappers
    THEN {ZodWrapper(node.kind, inner) : inner \in Rebuilds(node.inner)}
    ELSE IF node.kind \in {"ZodUnion", "ZodTuple"}
    THEN {ZodMembers(node.kind, members) :
             members \in Choices([i \in 1..Len(node.members) |-> Rebuilds(node.members[i])])}
    ELSE IF node.kind = "ZodIntersection"
    THEN {ZodIntersection(left, right) :
             left \in Rebuilds(node.left), right \in Rebuilds(node.right)}
    ELSE {node}

\* The object with one more field, with one field less, or with one field
\* of a primitive type given another primitive type.
WithField(object) ==
    {ZodObject(Append(object.shape, ShapeField(key, type))) :
        key \in (FieldNames \cup {<<"c">>}) \ {object.shape[i].key : i \in 1..Len(object.shape)},
        type \in FieldTypes}

WithoutField(object) ==
    {ZodObject(SubSeq(object.shape, 1, i - 1) \o SubSeq(object.shape, i + 1, Len(object.shape))) :
        i \in 1..Len(object.shape)}

Retyped(object) ==
    UNION {{ZodObject([object.shape EXCEPT ![i].node = ZodPrimitive(kind)]) :
               kind \in Primitives \ {object.shape[i].node.kind}} :
           i \in {j \in 1..Len(object.shape) : object.shape[j].node.kind \in Primitives}}

HashSchemaReturned == pure.fn = "hashSchema" /\ pure.stage = "returned"

\* C24: two schemas with the same field names and field types yield the
\* same shape string and the same hash, whatever the order in which their
\* keys are declared, at the root and in nested objects, and whatever their
\* default values; a schema with a field added, a field removed or the
\* primitive type of a field changed yields a different shape string.
C24_StructureOnly ==
    HashSchemaReturned =>
        LET shape == ExtractSchemaShape(pure.args)
        IN /\ ~shape.threw
           /\ ~pure.result.threw
           /\ \A other \in Rebuilds(pure.args) :
                  /\ ExtractSchemaShape(other) = shape
                  /\ HashSchema(other) = pure.result
           /\ \A other \in WithField(pure.args) \cup WithoutField(pure.args)
                                \cup Retyped(pure.args) :
                  /\ ~ExtractSchemaShape(other).threw
                  /\ ExtractSchemaShape(other).str # shape.str

AdapterFailed(op) ==
    pure.fn = "adapter" /\ pure.stage = "settled" /\ pure.call.op = op /\ pure.call.fails

\* C26 as stated: in every bundled adapter a failure of the underlying
\* getItem resolves with null, and a failure of the underlying setItem or
\* removeItem rejects.
C26_ErrorContract ==
    /\ AdapterFailed("getItem") => pure.call.outcome = Resolved(Null)
    /\ AdapterFailed("setItem") => pure.call.outcome.settled = "rejected"
    /\ AdapterFailed("removeItem") => pure.call.outcome.settled = "rejected"

\* C26: in every bundled adapter a failure of the underlying getItem
\* resolves with null and a failure of the underlying setItem rejects with
\* the underlying error; a failure of the underlying removeItem rejects with
\* it in the AsyncStorage adapter and resolves in the localStorage adapter.
\* A failed call leaves the store as it was.
C26_ErrorsByAdapter ==
    [][/\ AdapterFailed("getItem")' => pure'.call.outcome = Resolved(Null)
       /\ AdapterFailed("setItem")' => pure'.call.outcome = Rejected(UnderlyingError)
       /\ (AdapterFailed("removeItem")' /\ pure.adapter = "asyncStorage") =>
              pure'.call.outcome = Rejected(UnderlyingError)
       /\ (AdapterFailed("removeItem")' /\ pure.adapter = "localStorage") =>
              pure'.call.outcome = Resolved(Undefined)
       /\ (pure'.fn = "adapter" /\ pure'.call.fails) => pure'.store = pure.store]_vars

C26_Witness ==
    /\ AdapterFailed("removeItem")
    /\ pure.adapter = "localStorage"
    /\ pure.store[pure.call.key] # Null

\* The indexes of the arguments parseArgs reads as options, each followed
\* by its value: an argument that is the value of an option is not one.
RECURSIVE OptionsFrom(_, _)
OptionsFrom(args, i) ==
    IF i > Len(args) THEN {}
    ELSE IF args[i] \in Flags \cup {"--config"} /\ i < Len(args) /\ Truthy(args[i + 1])
    THEN {i} \cup OptionsFrom(args, i + 2)
    ELSE OptionsFrom(args, i + 1)

\* The value a source gives to a setting, Missing when it gives none: the
\* last one given on the command line, in the config files, in package.json.
LastOf(args, indexes) == args[(CHOOSE i \in indexes : \A j \in indexes : j <= i) + 1]

CliValue(args, key) ==
    LET given == {i \in OptionsFrom(args, 1) : args[i] \in Flags /\ FlagKey(args[i]) = key}
    IN IF given = {} THEN Missing ELSE LastOf(args, given)

ConfigFileValue(args, configFile, key) ==
    IF \E i \in OptionsFrom(args, 1) : args[i] = "--config" THEN configFile.values[key]
    ELSE Missing

PackageValue(packageJson, key) == packageJson.values[key]

ByPriority(values) ==
    IF \E i \in 1..Len(values) : Truthy(values[i])
    THEN values[CHOOSE i \in 1..Len(values) :
                    Truthy(values[i]) /\ \A j \in 1..(i - 1) : ~Truthy(values[j])]
    ELSE Missing

ParseArgsReturned ==
    pure.fn = "parseArgs" /\ pure.stage = "returned" /\ ~pure.result.threw

\* C27: parseArgs gives each setting the value of the CLI argument, else of
\* the --config file, else of package.json, else the default, whatever the
\* order of the arguments on the command line.
C27_Priority ==
    ParseArgsReturned =>
        \A key \in ConfigKeys :
            pure.result.config[key] =
                ByPriority(<<CliValue(pure.args.args, key),
                             ConfigFileValue(pure.args.args, pure.args.configFile, key),
                             PackageValue(pure.args.packageJson, key),
                             defaultConfig[key]>>)

\* init() has run to its end on a stored object without a version field.
ReadHasNoVersion == InitDone /\ ReadIsObject /\ ReadObject["_version"] = Undefined

\* C28: a stored object without a version field is taken as version 0: with
\* currentVersion >= 1, init() migrates it through every version from 1 to
\* currentVersion when all of them are registered, the state being the
\* validated result when they succeed; when one is not registered no
\* migration is invoked, the stored values are dropped and the state is the
\* defaults.
C28_NoVersionIsZero ==
    (ReadHasNoVersion /\ currentVersion >= 1) =>
        IF AllRegisteredFrom(1)
        THEN LET migrated == ApplyFrom(1, JsObject(ReadObject))
             IN /\ last.invoked # <<>>
                /\ \A i \in 1..Len(last.invoked) : last.invoked[i] = i
                /\ migrated.ok => Len(last.invoked) = currentVersion
                /\ (migrated.ok /\ SchemaParse(schema, migrated.val).ok) =>
                       /\ last.outcome = "resolved"
                       /\ state = JsObject([SchemaParse(schema, migrated.val).val.obj
                                              EXCEPT !["_version"] = Num(currentVersion)])
        ELSE /\ last.invoked = <<>>
             /\ last.outcome = "resolved"
             /\ ~NotInitialized
             /\ state.isObject
             /\ state.obj["_version"] = Num(currentVersion)
             /\ \A key \in Keys \ {"_version"} :
                    state.obj[key] = FieldOutput(schema[key], Undefined)

\* C31: once init() has completed, the in-memory state (what getAll()
\* returns) satisfies the schema in every state, those that follow a set or
\* an update that rejected included.
C31_StateSatisfiesSchema ==
    ~NotInitialized => SchemaParse(schema, state).ok

\* C32: once init() has completed, whatever set, update and clear calls
\* follow on whatever keys, the _version of the in-memory state is
\* currentVersion, and so is the _version of every item the manager hands
\* to setItem.
C32_VersionIsCurrent ==
    /\ ~NotInitialized => state.obj["_version"] = Num(currentVersion)
    /\ \A i \in 1..Len(inflight) :
           inflight[i].op = "setItem" =>
               Lookup(inflight[i].item.entries, "_version") = Num(currentVersion)

\* C33: a set(k, v) that passes validation changes field k only, every
\* other field of the in-memory state keeping its value, and hands to
\* setItem the serialization of the whole state after the change, every
\* field included; when the adapter resolves, that is the stored item.
C33_SetChangesOneField ==
    [][/\ \A key \in Keys, value \in SetValues :
              (SetCall(key, value) /\ last'.outcome = "pending") =>
                  /\ \A other \in Keys \ {key} : state'.obj[other] = state.obj[other]
                  /\ value # Undefined => state'.obj[key] = value
                  /\ Len(inflight') = Len(inflight) + 1
                  /\ LET blob == inflight'[Len(inflight')].item
                     IN /\ blob.kind = "object"
                        /\ \A field \in Keys :
                               Lookup(blob.entries, field) = state'.obj[field]
       /\ \A i \in 1..Len(inflight) :
              (SetItemDone(i, FALSE) /\ inflight[i].call.op = "set") =>
                  /\ state' = state
                  /\ JSONParse(storage') = Ok(state')]_vars

C33_Witness ==
    /\ last.op = "set"
    /\ last.outcome = "resolved"
    /\ last.key = "count"
    /\ ~NotInitialized
    /\ state.obj["count"] = last.value
    /\ state.obj["name"] = Template("v", currentVersion)
    /\ Len(storage.entries) = Cardinality(Keys)
    /\ Lookup(storage.entries, "name") = Template("v", currentVersion)
    /\ Lookup(storage.entries, "count") = last.value

\* The stored object carries a version above the current one.
ReadIsNewer ==
    ReadIsObject /\ VersionBranch(ReadObject, currentVersion) = "newer"

\* The requests in flight, the one at position i left out.
Without(requests, i) ==
    SubSeq(requests, 1, i - 1) \o SubSeq(requests, i + 1, Len(requests))

\* C34: an init() that falls back to the defaults (nothing usable stored,
\* an invalid object, a newer version, a migration missing or throwing)
\* issues no setItem and no removeItem and leaves the stored item as it
\* was; the item changes only when a setItem or a removeItem of a later
\* set, update or clear resolves.
C34_FallbackWritesNothing ==
    [][/\ \A i \in 1..Len(inflight), fails \in BOOLEAN :
              (GetItemDone(i, fails) /\ (FallbackCase' \/ ReadIsNewer')) =>
                  /\ storage' = storage
                  /\ inflight' = Without(inflight, i)
       /\ InitCall => (storage' = storage /\ last'.adapter \in {"none", "getItem"})
       /\ storage' # storage =>
              \E i \in 1..Len(inflight) :
                  /\ inflight[i].call.op \in {"set", "update", "clear"}
                  /\ inflight' = Without(inflight, i)
                  /\ last' = [inflight[i].call EXCEPT !.outcome = "resolved"]
                  /\ storage' = inflight[i].item]_vars

C34_Witness ==
    /\ InitDone
    /\ ReadIsNewer
    /\ last.outcome = "resolved"
    /\ ~NotInitialized
    /\ state = GetDefaults(schema, currentVersion).val
    /\ storage = last.read
    /\ JSONParse(storage).val.obj["_version"] = Num(currentVersion + 1)
    /\ inflight = <<>>

\* C35, as stated: what a set that resolved after an init() completed has
\* changed is not undone by another init() that was in flight then: after
\* the set(k, v) has resolved, and until the next set, update or clear is
\* called, get(k) returns v.  (Taken for the first write call of a manager,
\* so that no other write overlaps it.)
C35_WritesSurviveInit ==
    (written.stage = "set" /\ writes = 1 /\ written.value # Undefined) =>
        (~NotInitialized /\ state.obj[written.key] = written.value)

\* C35, amended: between the calls of set, update and clear the in-memory
\* state changes only when the read of an init() is answered; a read
\* answered on a manager that is initialized already replaces the state
\* with what init() loads from the item stored at that time, whatever the
\* in-memory state holds, so that a change whose write is still pending is
\* lost from memory.
C35_PendingInitReplaces ==
    [][/\ \A i \in 1..Len(inflight), fails \in BOOLEAN :
              (GetItemDone(i, fails) /\ initialized) =>
                  LET out == LoadState(schema, currentVersion, migrations, JsNull,
                                       [ok |-> ~fails, item |-> storage])
                  IN out.resolved =>
                        state' = EnsureVersion(out.state, currentVersion)
       /\ (initialized /\ state' # state) =>
              \/ last'.op \in {"set", "update", "clear"} /\ writes' = writes + 1
              \/ last'.op = "init" /\ last'.adapter = "getItem"
                   /\ Len(inflight') = Len(inflight) - 1
              \/ last'.op = "create"]_vars

C35_Witness ==
    /\ written.stage = "set"
    /\ writes = 1
    /\ last.op = "set"
    /\ last.outcome = "resolved"
    /\ written.value # Undefined
    /\ ~NotInitialized
    /\ state.obj[written.key] # written.value
    /\ Lookup(storage.entries, written.key) = written.value
    /\ inflight = <<>>

\* C36: over an adapter that stores in the order of the setItem calls,
\* every set or update with a valid value, made while others pend, puts its
\* value in the in-memory state and leaves the other fields as the earlier
\* calls set them (the call made last wins its key); the answers change
\* nothing in memory, and when the last pending call has resolved the
\* stored item decodes to exactly the in-memory state.
C36_OrderedWrites ==
    [][/\ (last'.op \in {"set", "update"} /\ last'.outcome = "pending") =>
              /\ state'.obj[last'.key] = FieldOutput(schema[last'.key], last'.value)
              /\ \A other \in Keys \ {last'.key} : state'.obj[other] = state.obj[other]
              /\ inflight' = Append(inflight,
                                    Request("setItem", JSONStringify(state'.obj), last'))
       /\ \A i \in 1..Len(inflight), fails \in BOOLEAN :
              SetItemDone(i, fails) =>
                  /\ state' = state
                  /\ (~fails /\ inflight' = <<>>) => JSONParse(storage') = Ok(state')]_vars

C36_Witness ==
    /\ callers = "ordered"
    /\ writes >= 2
    /\ inflight = <<>>
    /\ last.op = "update"
    /\ last.outcome = "resolved"
    /\ written.stage = "set"
    /\ last.key = "count"
    /\ state.obj["count"] = Num(2)
    /\ state.obj["name"] = Str("a")
    /\ JSONParse(storage) = Ok(state)

\* The entries of the list whose version is v.
EntriesOf(migs, v) == {i \in 1..Len(migs) : migs[i].version = v}

\* C37, as stated: a run that succeeds has invoked exactly one migrate
\* function per version in fromVersion+1..toVersion, toVersion - fromVersion
\* in all, whatever list it was given.
C37_OnePerVersion ==
    (Returned /\ run.result.ok) =>
        /\ Len(run.result.invoked) = run.toVersion - run.fromVersion
        /\ \A v \in Expected : Occurrences(run.result.invoked, v) = 1

\* C37, amended: a run that succeeds has invoked the migrate function of
\* every entry of the list with fromVersion < version <= toVersion and of
\* no other: one per version, toVersion - fromVersion in all, when no
\* version in that range is repeated in the list, and one per entry, so
\* more than that, when one is.  The caller's array is left as it was given,
\* same elements in the same order.
C37_OnePerEntry ==
    [][RunCall =>
          /\ run'.migrations = run.migrations
          /\ (run'.result.ok /\ run.fromVersion < run.toVersion) =>
                 /\ \A v \in RunVersions :
                        Occurrences(run'.result.invoked, v) =
                            IF v \in Expected
                            THEN Cardinality(EntriesOf(run.migrations, v))
                            ELSE 0
                 /\ Len(run'.result.invoked) >= run.toVersion - run.fromVersion
                 /\ (Len(run'.result.invoked) = run.toVersion - run.fromVersion)
                        <=> \A v \in Expected :
                                Cardinality(EntriesOf(run.migrations, v)) = 1
          /\ (run'.result.ok /\ run.fromVersion = run.toVersion) =>
                 run'.result.invoked = <<>>]_vars

C37_Witness ==
    /\ Returned
    /\ run.result.ok
    /\ run.fromVersion < run.toVersion
    /\ Len(run.result.invoked) > run.toVersion - run.fromVersion
    /\ Len(run.migrations) = 3
    /\ run.migrations[1].version > run.migrations[2].version
    /\ run.migrations[2].version = run.migrations[3].version
    /\ run.result.invoked = <<run.migrations[2].version, run.migrations[3].version,
                              run.migrations[1].version>>

\* The schema rejects { _version }: a required field has no default.
NoDefaults == ~GetDefaults(schema, currentVersion).ok

\* C38, as stated: with a schema that rejects { _version }, init() rejects
\* and the manager stays not initialized whatever the storage holds, and
\* get, getAll, set and update fail with the not-initialized error.
C38_NoDefaultsNeverLoads ==
    NoDefaults =>
        /\ ~initialized
        /\ InitDone => last.outcome = "schema-error"
        /\ last.op \in {"get", "getAll", "set", "update"} =>
               last.outcome = "not-initialized"

\* C38, amended: with a schema that rejects { _version }, init() rejects
\* and leaves the manager not initialized on every path that asks for the
\* defaults: nothing stored, a read that failed, an item that is no object or
\* is invalid, a newer version, a migration missing, throwing or giving an
\* invalid object; it resolves and initializes the manager when the stored
\* object is valid as it is or after its migrations.  While the manager is
\* not initialized get, getAll, set and update fail with the
\* not-initialized error.
C38_NoDefaultsRejects ==
    NoDefaults =>
        /\ (InitDone /\ (FallbackCase \/ ReadIsNewer)) =>
               (last.outcome = "schema-error" /\ ~initialized)
        /\ (InitDone /\ ~(FallbackCase \/ ReadIsNewer)) =>
               (last.outcome = "resolved" /\ ~NotInitialized)
        /\ (~initialized /\ last.op \in {"get", "getAll", "set", "update"}) =>
               last.outcome = "not-initialized"

C38_Witness ==
    /\ NoDefaults
    /\ last.op = "get"
    /\ last.outcome = "not-initialized"
    /\ ~initialized
    /\ state.isObject
    /\ storage.kind = "object"
    /\ JSONParse(storage).val.obj["_version"] = Num(currentVersion - 1)
    /\ ~SchemaParse(schema, state).ok

\* C39: for every schema the generation script computes the fingerprint
\* the library computes: getTypeName renders every node as getTypeString
\* does, the script's extractSchemaShape gives the library's shape string,
\* and the hash written to the table is hashSchema of the schema.
C39_SameFingerprint ==
    pure.stage = "returned" =>
        /\ pure.fn = "getTypeName" => pure.result = GetTypeString(pure.args)
        /\ pure.fn = "generated shape" => pure.result = ExtractSchemaShape(pure.args)
        /\ pure.fn = "generated hash" => pure.result = HashSchema(pure.args)

====
